---- MODULE Spec2Model ----
(***************************************************************************)
(* mdbook-typst-pdf: the Markdown-event to Typst translator of             *)
(* src/src/convert.rs (convert_typst, convert_book_item, convert_content)  *)
(* and the part of main (src/src/main.rs) that calls it.                   *)
(*                                                                         *)
(* A Rust String is a sequence of one-character strings.  The output       *)
(* buffer content_str is kept as the sequence of the strings appended by   *)
(* the successive write!/writeln! calls; Flatten gives the String itself.  *)
(* The pulldown-cmark parser is the environment: it hands the translator a *)
(* well-nested stream of events, one per step.                             *)
(***************************************************************************)
EXTENDS Integers, Sequences, FiniteSets, TLC

VARIABLES
  pc,                        \* "convert_typst" | "book_item" | "events" | "done" |
                             \* "splice" | "returned" | "exit" | "failed" | "panicked"
  ch,                        \* the Chapter being converted
  section_number,            \* cfg.section_number
  events,                    \* the events the parser has produced so far
  open,                      \* the parser's stack of open tags (Start events)
  label,                     \* convert_content's parameter label
  invisible_heading,         \* convert_content's parameter invisible_heading
  content_str,               \* convert_content's output buffer, one entry per write
  heading,                   \* convert_content's heading accumulation buffer
  writen_invisible_heading,  \* convert_content's flag
  event_stack,               \* convert_content's Vec<EventType>
  book_item_str,             \* convert_book_item's result (once pc = "done")
  error,                     \* the message of the anyhow error returned ("" while there is none)
  dest_files,                \* destination tree: path -> content ("absent" if missing)
  dest_dirs,                 \* destination tree: the directories that exist
  max_events,                \* length bound of the chapter's event stream
  book,                      \* ctx.book.iter(): the book items, in order
  item,                      \* the position of convert_typst's loop in book
  title,                     \* ctx.config.book.title
  template,                  \* convert_typst's parameter template
  output_template,           \* convert_typst's output_template (its result once returned)
  typst_str,                 \* convert_typst's typst_str, one entry per writeln
  pdf,                       \* cfg.pdf
  typ_file,                  \* the markup file main has written (NoFile if none)
  export_started             \* main has called export_pdf

parserVars == <<events, open, max_events>>
chapterVars == <<ch, section_number, label, invisible_heading>>
localVars == <<content_str, heading, writen_invisible_heading, event_stack>>
fsVars == <<dest_files, dest_dirs>>
bookVars == <<book, item, title, template, output_template, typst_str>>
mainVars == <<pdf, typ_file, export_started>>
vars == <<pc, ch, section_number, events, open, label, invisible_heading,
          content_str, heading, writen_invisible_heading, event_stack,
          book_item_str, error, dest_files, dest_dirs, max_events,
          book, item, title, template, output_template, typst_str,
          pdf, typ_file, export_started>>

----------------------------------------------------------------------------
(* Bounds of the model *)

\* longest event stream of a chapter, per specification
MaxEvents == 4
MaxHeadingEvents == 7
MaxNestingEvents == 12
MaxProseEvents == 3
MaxContextEvents == 7
MaxLinkEvents == 7
MaxAssetEvents == 4
MaxBookEvents == 4
MaxStrayEvents == 4
MaxBracketEvents == 5
MaxFenceEvents == 4
MaxLocalEvents == 4
MaxAltEvents == 7
MaxDroppedEvents == 5

\* longest Text payload of the prose specification
MaxTextLen == 3

----------------------------------------------------------------------------
(* Characters and strings *)

\* The grave accent U+0060 cannot be written in a string of this language:
\* the one-character string holding it is written "backtick".
Backtick == "backtick"

UpperLetters == <<"A", "B", "C", "D", "E", "F", "G", "H", "I", "J", "K", "L", "M", "N", "O", "P", "Q", "R", "S", "T", "U", "V", "W", "X", "Y", "Z">>
LowerLetters == <<"a", "b", "c", "d", "e", "f", "g", "h", "i", "j", "k", "l", "m", "n", "o", "p", "q", "r", "s", "t", "u", "v", "w", "x", "y", "z">>
DigitChars == <<"0", "1", "2", "3", "4", "5", "6", "7", "8", "9">>

Range(s) == {s[i] : i \in 1..Len(s)}

\* char::is_alphanumeric, on the characters of the model
IsAlphanumeric(c) ==
  c \in Range(UpperLetters) \cup Range(LowerLetters) \cup Range(DigitChars)

\* char::is_whitespace
IsWhitespace(c) == c \in {" ", "\t", "\n"}

\* char::to_ascii_lowercase
ToAsciiLowercase(c) ==
  IF c \in Range(UpperLetters)
    THEN LowerLetters[CHOOSE i \in 1..Len(UpperLetters) : UpperLetters[i] = c]
    ELSE c

\* the regex class \w
IsWordChar(c) == IsAlphanumeric(c) \/ c = "_"

\* Display of a small unsigned integer
IntStr(n) ==
  IF n < 10 THEN <<DigitChars[n + 1]>>
  ELSE <<DigitChars[(n \div 10) + 1], DigitChars[(n % 10) + 1]>>

\* str::starts_with
StartsWith(s, p) == Len(s) >= Len(p) /\ SubSeq(s, 1, Len(p)) = p

\* str::replace(from, to) for a one-character pattern
RECURSIVE Replace(_, _, _)
Replace(s, from, to) ==
  IF s = <<>> THEN <<>>
  ELSE (IF Head(s) = from THEN to ELSE <<Head(s)>>) \o Replace(Tail(s), from, to)

\* str::split(sep): the tokens between separators (never an empty list)
RECURSIVE Split(_, _)
Split(s, sep) ==
  IF \A i \in 1..Len(s) : s[i] # sep THEN <<s>>
  ELSE LET k == CHOOSE i \in 1..Len(s) : s[i] = sep /\ \A j \in 1..(i-1) : s[j] # sep
       IN <<SubSeq(s, 1, k - 1)>> \o Split(SubSeq(s, k + 1, Len(s)), sep)

\* the String held by a buffer of writes
RECURSIVE Flatten(_)
Flatten(ws) == IF ws = <<>> THEN <<>> ELSE Head(ws) \o Flatten(Tail(ws))

\* mdbook::utils::normalize_id, as called at the Heading End: alphanumerics,
\* '_' and '-' are kept (lower-cased), whitespace becomes '-', the rest is dropped
RECURSIVE normalize_id(_)
normalize_id(s) ==
  IF s = <<>> THEN <<>>
  ELSE LET c == Head(s)
       IN (IF IsAlphanumeric(c) \/ c = "_" \/ c = "-" THEN <<ToAsciiLowercase(c)>>
           ELSE IF IsWhitespace(c) THEN <<"-">>
           ELSE <<>>) \o normalize_id(Tail(s))

----------------------------------------------------------------------------
(* Text escaping: the default arm of the Text handler *)

ReservedChars == {"#", "$", Backtick, "*", "_", "<", ">", "@"}

\* a variant of EscapeChar whose list of characters lacks '@'
EscapeCharNoAt(c) == IF c \in ReservedChars \ {"@"} THEN <<"\\", c>> ELSE <<c>>

EscapeChar(c) == IF c \in ReservedChars THEN <<"\\", c>> ELSE <<c>>

RECURSIVE transformed_text(_)
transformed_text(t) ==
  IF t = <<>> THEN <<>> ELSE EscapeChar(Head(t)) \o transformed_text(Tail(t))

----------------------------------------------------------------------------
(* The strings the handlers write *)

\* Heading Start: "#heading(level: {}, outlined: false)["
HeadingOpen(level) ==
  <<"#", "h", "e", "a", "d", "i", "n", "g", "(", "l", "e", "v", "e", "l", ":", " ">> \o IntStr(level) \o <<",", " ", "o", "u", "t", "l", "i", "n", "e", "d", ":", " ", "f", "a", "l", "s", "e", ")", "[">>

\* the label of a heading: "{label}.html-{normalize_id(heading)}"
AnchorLabel(l, h) == l \o <<".", "h", "t", "m", "l", "-">> \o normalize_id(h)

\* Heading End: writeln "] <{}.html-{}>"
HeadingClose(l, h) == <<"]", " ", "<">> \o AnchorLabel(l, h) \o <<">", "\n">>

\* Heading End: writeln "{}" of the invisible heading
InvisibleHeadingLine(ih) == ih \o <<"\n">>

\* Link Start: the email pattern
\*   (?i)^\w+([\.-]?\w+)*@\w+([\.-]?\w+)*(.\w{2,3})+$
\* \w+([\.-]?\w+)* : word characters, '.' and '-', starting and ending with a
\* word character and with no two separators in a row
MatchesWordRun(s) ==
  /\ Len(s) >= 1
  /\ \A i \in 1..Len(s) : IsWordChar(s[i]) \/ s[i] \in {".", "-"}
  /\ IsWordChar(s[1]) /\ IsWordChar(s[Len(s)])
  /\ \A i \in 1..(Len(s) - 1) : IsWordChar(s[i]) \/ IsWordChar(s[i + 1])

\* (.\w{2,3})+ : one or more groups of any character but a line feed followed by
\* two or three word characters
RECURSIVE MatchesSuffixGroups(_)
MatchesSuffixGroups(s) ==
  \E n \in {3, 4} :
    /\ Len(s) >= n
    /\ s[1] # "\n"
    /\ \A i \in 2..n : IsWordChar(s[i])
    /\ (Len(s) = n \/ MatchesSuffixGroups(SubSeq(s, n + 1, Len(s))))

email_regex_is_match(s) ==
  \E a \in 1..Len(s) :
    /\ s[a] = "@"
    /\ MatchesWordRun(SubSeq(s, 1, a - 1))
    /\ \E b \in (a + 1)..(Len(s) - 1) :
         /\ MatchesWordRun(SubSeq(s, a + 1, b))
         /\ MatchesSuffixGroups(SubSeq(s, b + 1, Len(s)))

\* a variant of LinkOpen whose fragment links lack the chapter label
LinkOpenNoLabel(dest_url, l) ==
  IF StartsWith(dest_url, <<"h", "t", "t", "p", ":", "/", "/">>) \/ StartsWith(dest_url, <<"h", "t", "t", "p", "s", ":", "/", "/">>)
    THEN <<"#", "l", "i", "n", "k", "(", "\"">> \o dest_url \o <<"\"", ")", "[">>
  ELSE IF email_regex_is_match(dest_url)
    THEN <<"#", "l", "i", "n", "k", "(", "\"", "m", "a", "i", "l", "t", "o", ":">> \o dest_url \o <<"\"", ")", "[">>
  ELSE <<"#", "l", "i", "n", "k", "(", "<">> \o Replace(dest_url, "#", <<"-">>) \o <<">", ")", "[">>

\* Link Start: the four renderings, first match first
LinkOpen(dest_url, l) ==
  IF StartsWith(dest_url, <<"h", "t", "t", "p", ":", "/", "/">>) \/ StartsWith(dest_url, <<"h", "t", "t", "p", "s", ":", "/", "/">>)
    THEN <<"#", "l", "i", "n", "k", "(", "\"">> \o dest_url \o <<"\"", ")", "[">>
  ELSE IF email_regex_is_match(dest_url)
    THEN <<"#", "l", "i", "n", "k", "(", "\"", "m", "a", "i", "l", "t", "o", ":">> \o dest_url \o <<"\"", ")", "[">>
  ELSE IF StartsWith(dest_url, <<"#">>)
    THEN <<"#", "l", "i", "n", "k", "(", "<">> \o l \o <<".", "h", "t", "m", "l">> \o Replace(dest_url, "#", <<"-">>) \o <<">", ")", "[">>
  ELSE <<"#", "l", "i", "n", "k", "(", "<">> \o Replace(dest_url, "#", <<"-">>) \o <<">", ")", "[">>

\* Table Start: the alignment keywords joined by ", "
AlignKeyword(a) ==
  CASE a = "None" -> <<"a", "u", "t", "o">>
    [] a = "Left" -> <<"l", "e", "f", "t">>
    [] a = "Center" -> <<"c", "e", "n", "t", "e", "r">>
    [] a = "Right" -> <<"r", "i", "g", "h", "t">>

RECURSIVE JoinAlign(_)
JoinAlign(align) ==
  IF align = <<>> THEN <<>>
  ELSE IF Len(align) = 1 THEN AlignKeyword(align[1])
  ELSE AlignKeyword(align[1]) \o <<",", " ">> \o JoinAlign(Tail(align))

TableOpen(align) ==
  <<"#", "t", "a", "b", "l", "e", "(", "\n", " ", " ", "c", "o", "l", "u", "m", "n", "s", ":", " ">> \o IntStr(Len(align)) \o <<",", "\n", " ", " ", "i", "n", "s", "e", "t", ":", " ", "1", "0", "p", "t", ",", "\n", " ", " ", "a", "l", "i", "g", "n", ":", " ", "(">>
    \o JoinAlign(align) \o <<")", ",", "\n", " ", " ", "\n">>

\* Image Start: "#figure(\n  image(\"{}\")\n)"
Figure(dest_url) == <<"#", "f", "i", "g", "u", "r", "e", "(", "\n", " ", " ", "i", "m", "a", "g", "e", "(", "\"">> \o dest_url \o <<"\"", ")", "\n", ")">>

\* the info-string tokens that ask for a decoration
FerrisNames == {<<"d", "o", "e", "s", "_", "n", "o", "t", "_", "c", "o", "m", "p", "i", "l", "e">>, <<"n", "o", "t", "_", "d", "e", "s", "i", "r", "e", "d", "_", "b", "e", "h", "a", "v", "i", "o", "r">>, <<"p", "a", "n", "i", "c", "s">>}

\* langs.iter().skip(1)
Skip1(langs) == SubSeq(langs, 2, Len(langs))

\* a variant of FerrisPrefix that looks at the first token too
FerrisPrefixAnyToken(langs) ==
  IF \E i \in 1..Len(langs) : langs[i] \in FerrisNames
    THEN <<"#", "c", "o", "l", "u", "m", "n", "s", "(", "1", ")", "[", "\n">> ELSE <<>>

\* CodeBlock Start (fenced): ferris_prefix after the loop over the later tokens
FerrisPrefix(langs) ==
  IF \E i \in 1..Len(Skip1(langs)) : Skip1(langs)[i] \in FerrisNames
    THEN <<"#", "c", "o", "l", "u", "m", "n", "s", "(", "1", ")", "[", "\n">> ELSE <<>>

\* CodeBlock Start (fenced): writeln "{}````{}"
FencedOpen(lang) ==
  LET langs == Split(lang, ",")
  IN FerrisPrefix(langs) \o <<"backtick", "backtick", "backtick", "backtick">> \o langs[1] \o <<"\n">>

\* CodeBlock End: "img/ferris/{}.svg"
FerrisSrcPath(l) == <<"i", "m", "g", "/", "f", "e", "r", "r", "i", "s", "/">> \o l \o <<".", "s", "v", "g">>

\* CodeBlock End: the recognised tokens after the first, in order
FerrisTokens(lang) ==
  SelectSeq(Skip1(Split(lang, ",")), LAMBDA l : l \in FerrisNames)

\* CodeBlock End: ferris_suffix for the last recognised token
FerrisSuffix(l) ==
  <<"\n", "#", "p", "l", "a", "c", "e", "(", "\n", " ", " ", "t", "o", "p", " ", "+", " ", "r", "i", "g", "h", "t", ",", "\n", " ", " ", "f", "i", "g", "u", "r", "e", "(", "\n", " ", " ", " ", " ", "i", "m", "a", "g", "e", "(", "\"">> \o FerrisSrcPath(l)
    \o <<"\"", ",", " ", "w", "i", "d", "t", "h", ":", " ", "1", "0", "%", ")", "\n", " ", " ", ")", "\n", ")", "\n", "]">>

\* CodeBlock End (fenced): writeln "````{}"
FencedClose(lang) ==
  LET toks == FerrisTokens(lang)
  IN <<"backtick", "backtick", "backtick", "backtick">> \o (IF toks = <<>> THEN <<>> ELSE FerrisSuffix(toks[Len(toks)])) \o <<"\n">>

\* Code: "```` {} ````"
InlineCode(t) == <<"backtick", "backtick", "backtick", "backtick", " ">> \o t \o <<" ", "backtick", "backtick", "backtick", "backtick">>

\* a variant of TextOut that escapes whatever the context
TextOutAlwaysEscaped(top, t) ==
  CASE top = "TableHead" -> <<"*">> \o t \o <<"*">>
    [] top = "Image" -> <<"/", "*", " ">> \o t \o <<" ", "*", "/">>
    [] OTHER -> transformed_text(t)

\* Text, by the top of the event stack
TextOut(top, t) ==
  CASE top = "CodeBlockIndented" -> t
    [] top = "CodeBlockFenced" -> t
    [] top = "TableHead" -> <<"*">> \o t \o <<"*">>
    [] top = "Image" -> <<"/", "*", " ">> \o t \o <<" ", "*", "/">>
    [] OTHER -> transformed_text(t)

----------------------------------------------------------------------------
(* The book item handed to convert_book_item *)

\* Option::None of a path and of a section number
NoPath == <<"None">>
NoNumber == <<0>>

\* Path::file_name: the last component (none for an empty path or for "..")
FileName(p) ==
  LET comps == Split(p, "/")
      last == comps[Len(comps)]
  IN IF last = <<>> \/ last = <<".", ".">> THEN NoPath ELSE last

\* f.split('.').next()
LabelOf(file_name) == Split(file_name, ".")[1]

\* Display of mdbook's SectionNumber: every item followed by '.'
RECURSIVE SectionNumberStr(_)
SectionNumberStr(number) ==
  IF number = <<>> THEN <<>>
  ELSE IntStr(Head(number)) \o <<".">> \o SectionNumberStr(Tail(number))

\* a variant of InvisibleHeading whose level is always 1
InvisibleHeadingLevelOne(number, name, l, with_number) ==
  IF number # NoNumber /\ with_number
    THEN <<"#", "i", "n", "v", "i", "s", "i", "b", "l", "e", "-", "h", "e", "a", "d", "i", "n", "g", "(", "l", "e", "v", "e", "l", ":", " ", "1", ",", " ", "o", "u", "t", "l", "i", "n", "e", "d", ":", " ", "t", "r", "u", "e", ")", "[", "#", "\"">> \o SectionNumberStr(number)
           \o <<" ">> \o name \o <<"\"", "]", " ", "<">> \o l \o <<".", "h", "t", "m", "l", ">">>
    ELSE <<"#", "i", "n", "v", "i", "s", "i", "b", "l", "e", "-", "h", "e", "a", "d", "i", "n", "g", "(", "l", "e", "v", "e", "l", ":", " ", "1", ",", " ", "o", "u", "t", "l", "i", "n", "e", "d", ":", " ", "t", "r", "u", "e", ")", "[">> \o name
           \o <<"]", " ", "<">> \o l \o <<".", "h", "t", "m", "l", ">">>

\* convert_book_item: the invisible heading of the chapter
InvisibleHeading(number, name, l, with_number) ==
  IF number # NoNumber
    THEN IF with_number
      THEN <<"#", "i", "n", "v", "i", "s", "i", "b", "l", "e", "-", "h", "e", "a", "d", "i", "n", "g", "(", "l", "e", "v", "e", "l", ":", " ">> \o IntStr(Len(number))
             \o <<",", " ", "o", "u", "t", "l", "i", "n", "e", "d", ":", " ", "t", "r", "u", "e", ")", "[", "#", "\"">> \o SectionNumberStr(number) \o <<" ">> \o name
             \o <<"\"", "]", " ", "<">> \o l \o <<".", "h", "t", "m", "l", ">">>
      ELSE <<"#", "i", "n", "v", "i", "s", "i", "b", "l", "e", "-", "h", "e", "a", "d", "i", "n", "g", "(", "l", "e", "v", "e", "l", ":", " ">> \o IntStr(Len(number))
             \o <<",", " ", "o", "u", "t", "l", "i", "n", "e", "d", ":", " ", "t", "r", "u", "e", ")", "[">> \o name \o <<"]", " ", "<">> \o l \o <<".", "h", "t", "m", "l", ">">>
    ELSE <<"#", "i", "n", "v", "i", "s", "i", "b", "l", "e", "-", "h", "e", "a", "d", "i", "n", "g", "(", "l", "e", "v", "e", "l", ":", " ", "1", ",", " ", "o", "u", "t", "l", "i", "n", "e", "d", ":", " ", "t", "r", "u", "e", ")", "[">> \o name
           \o <<"]", " ", "<">> \o l \o <<".", "h", "t", "m", "l", ">">>

----------------------------------------------------------------------------
(* The destination tree and the materialisation of an asset *)

\* the asset paths the books of the model refer to
ImageDests == {<<"a", ".", "p", "n", "g">>, <<"i", "m", "g", "/", "b", ".", "p", "n", "g">>, <<"n", "o", ".", "p", "n", "g">>}
HtmlSrcs == {<<"h", ".", "p", "n", "g">>}
AssetPaths == ImageDests \cup HtmlSrcs \cup {FerrisSrcPath(l) : l \in FerrisNames}

\* the files present under the book's source directory
SrcFiles == AssetPaths \ {<<"n", "o", ".", "p", "n", "g">>}

\* Path::parent of a relative path below the destination ("" is the destination)
Parent(p) ==
  IF \A i \in 1..Len(p) : p[i] # "/" THEN <<>>
  ELSE LET k == CHOOSE i \in 1..Len(p) : p[i] = "/" /\ \A j \in (i+1)..Len(p) : p[j] # "/"
       IN SubSeq(p, 1, k - 1)

\* the directories fs::create_dir_all(dir) makes sure exist
RECURSIVE DirsUpTo(_)
DirsUpTo(dir) == IF dir = <<>> THEN {} ELSE {dir} \cup DirsUpTo(Parent(dir))

\* what the operating system does to one materialisation
IoOutcomes == {"ok", "create_dir_fails", "copy_fails"}

\* the directories that hold the files of a destination tree
DirsOf(files) == UNION {DirsUpTo(Parent(p)) : p \in {q \in DOMAIN files : files[q] # "absent"}}

\* a variant of Materialize that copies without looking at the destination
MaterializeOverwrite(files, dirs, p, io) ==
  LET wanted == DirsUpTo(Parent(p))
  IN IF io = "create_dir_fails" /\ ~(wanted \subseteq dirs)
       THEN [ok |-> FALSE, files |-> files, dirs |-> dirs]
     ELSE IF p \in SrcFiles /\ io # "copy_fails"
       THEN [ok |-> TRUE, files |-> [files EXCEPT ![p] = "copied"], dirs |-> dirs \cup wanted]
     ELSE [ok |-> FALSE, files |-> files, dirs |-> dirs \cup wanted]

\* create_dir_all(dest_dir)?; if !dest_path.exists() { fs::copy(src, dest)?; }
\* create_dir_all returns Ok for a directory that exists already (and for the
\* destination itself), so it can fail only when it has a directory to make.
Materialize(files, dirs, p, io) ==
  LET wanted == DirsUpTo(Parent(p))
  IN IF io = "create_dir_fails" /\ ~(wanted \subseteq dirs)
       THEN [ok |-> FALSE, files |-> files, dirs |-> dirs]
     ELSE IF files[p] # "absent"
       THEN [ok |-> TRUE, files |-> files, dirs |-> dirs \cup wanted]
     ELSE IF p \in SrcFiles /\ io # "copy_fails"
       THEN [ok |-> TRUE, files |-> [files EXCEPT ![p] = "copied"], dirs |-> dirs \cup wanted]
     ELSE [ok |-> FALSE, files |-> files, dirs |-> dirs \cup wanted]

\* the materialisations of a CodeBlock End, in order, stopping at the first failure
RECURSIVE MaterializeAll(_, _, _, _)
MaterializeAll(files, dirs, paths, ios) ==
  IF paths = <<>> THEN [ok |-> TRUE, files |-> files, dirs |-> dirs]
  ELSE LET r == Materialize(files, dirs, Head(paths), Head(ios))
       IN IF r.ok THEN MaterializeAll(r.files, r.dirs, Tail(paths), Tail(ios)) ELSE r

----------------------------------------------------------------------------
(* The parser: events and the grammar of a well-nested stream *)

\* An event: kind "Start" | "End" | "Text" | "Code" | "Html" | "InlineHtml" |
\* "SoftBreak" | "Other"; tag names the Tag of a Start or End (or the variant of
\* an Other event); arg is the string payload (text, destination, info string or
\* the alignment list); n is the heading level, 1 for an ordered list or a
\* fenced code block, else 0.
Ev(kind, tag, arg, n) == [kind |-> kind, tag |-> tag, arg |-> arg, n |-> n]
StartEv(tag, arg, n) == Ev("Start", tag, arg, n)
EndEv(tag) == Ev("End", tag, <<>>, 0)
IsStartOf(e, tag) == e.kind = "Start" /\ e.tag = tag
IsEndOf(e, tag) == e.kind = "End" /\ e.tag = tag

Top(s) == s[Len(s)]
Front(s) == SubSeq(s, 1, Len(s) - 1)

\* the payloads of the books of the model
Levels == {1, 2}
Texts == {<<"A", "b">>, <<"a", "*">>}
Codes == {<<"x", "_">>}
LinkDests == {<<"h", "t", "t", "p", "s", ":", "/", "/", "a", ".", "c", "o", "m">>, <<"a", "@", "b", ".", "c", "o">>, <<"#", "s", "e", "c">>, <<"c", "h", "2", ".", "h", "t", "m", "l", "#", "s", "e", "c">>}
Langs == {<<"r", "u", "s", "t">>, <<"r", "u", "s", "t", ",", "p", "a", "n", "i", "c", "s">>}
Aligns == {<<"None", "Right">>}
HtmlPayloads == {<<"<", "s", "u", "p", ">">>, <<"<", "/", "s", "u", "p", ">">>, <<"<", "i", "m", "g", " ", "s", "r", "c", "=", "\"", "h", ".", "p", "n", "g", "\"", ">">>, <<"<", "b", ">">>}

\* tags and leaf events the translator has no arm for
OtherTags == {"Strikethrough", "FootnoteDefinition", "HtmlBlock"}
OtherLeaves == {"HardBreak", "Rule", "FootnoteReference", "TaskListMarker"}

\* where the parser produces blocks, and where inlines
BlockContext ==
  IF open = <<>> THEN TRUE
  ELSE Top(open).tag \in {"BlockQuote", "Item", "FootnoteDefinition"}
InlineContext ==
  /\ open # <<>>
  /\ Top(open).tag \in {"Paragraph", "Heading", "TableCell", "Emphasis", "Strong",
                        "Strikethrough", "Link", "Image", "Item"}
InsideTag(tag) == \E i \in 1..Len(open) : open[i].tag = tag

\* may the parser open this tag here?
MayStart(tag) ==
  CASE tag \in {"Heading", "Paragraph", "BlockQuote", "List", "CodeBlock", "Table",
                "FootnoteDefinition", "HtmlBlock"} -> BlockContext
    [] tag \in {"Emphasis", "Strong", "Strikethrough", "Image"} -> InlineContext
    [] tag = "Link" -> InlineContext /\ ~InsideTag("Link")
    [] tag = "Item" -> open # <<>> /\ Top(open).tag = "List"
    [] tag = "TableHead" ->
         open # <<>> /\ Top(open).tag = "Table" /\ Top(events).kind = "Start"
    [] tag = "TableRow" ->
         open # <<>> /\ Top(open).tag = "Table" /\ Top(events).kind = "End"
    [] tag = "TableCell" -> open # <<>> /\ Top(open).tag \in {"TableHead", "TableRow"}

\* the parser produces Start(tag): the stream stays short enough to be closed
ParserStart(e) ==
  /\ pc = "events"
  /\ MayStart(e.tag)
  /\ Len(events) + Len(open) + 2 <= max_events
  /\ events' = Append(events, e)
  /\ open' = Append(open, e)
  /\ UNCHANGED max_events

\* may the parser close this tag now?  A list holds at least one item, a
\* table its head, a table head or row at least one cell.
MayEnd(tag) ==
  CASE tag = "List" -> IsEndOf(Top(events), "Item")
    [] tag = "Table" -> Top(events).kind = "End"
    [] tag \in {"TableHead", "TableRow"} -> IsEndOf(Top(events), "TableCell")
    [] OTHER -> TRUE

\* the parser produces End(tag): the End of the innermost open tag
ParserEnd(tag) ==
  /\ pc = "events"
  /\ open # <<>>
  /\ Top(open).tag = tag
  /\ MayEnd(tag)
  /\ events' = Append(events, EndEv(tag))
  /\ open' = Front(open)
  /\ UNCHANGED max_events

\* the parser produces an event that opens nothing
ParserLeaf(e) ==
  /\ pc = "events"
  /\ Len(events) + Len(open) + 1 <= max_events
  /\ events' = Append(events, e)
  /\ UNCHANGED <<open, max_events>>

----------------------------------------------------------------------------
(* convert_content: the state of the loop *)

\* an EventType on the event stack (lang is the info string of CodeBlockFenced)
Frame(type, lang) == [type |-> type, lang |-> lang]

\* Vec::pop, which leaves an empty vector empty
Pop(stack) == IF stack = <<>> THEN <<>> ELSE Front(stack)

\* event_stack.last(), as the name of the variant ("None" for an empty stack)
LastType(stack) == IF stack = <<>> THEN "None" ELSE Top(stack).type

\* event_stack.contains(&EventType::Heading)
ContainsHeading(stack) == \E i \in 1..Len(stack) : stack[i].type = "Heading"

\* write!/writeln! on content_str
Write(ws) == content_str' = content_str \o ws

\* what the handlers that do not return leave alone
Continue == UNCHANGED <<pc, chapterVars, book_item_str, error, bookVars, mainVars>>

\* a handler returning Err through the ? operator
Fail(msg) ==
  /\ pc' = "failed"
  /\ error' = msg
  /\ UNCHANGED <<chapterVars, book_item_str, bookVars, mainVars>>

----------------------------------------------------------------------------
(* convert_book_item, up to the call of convert_content *)

\* BookItem::Chapter(ch), as opposed to Separator and PartTitle
IsChapter(it) == "source_path" \in DOMAIN it

convert_book_item ==
  /\ pc = "book_item"
  /\ IF ~IsChapter(ch)
       THEN /\ pc' = "done"
            /\ UNCHANGED <<label, invisible_heading, error>>
     ELSE IF ch.source_path = NoPath
       THEN /\ pc' = "failed"
            /\ error' = <<"s", "o", "u", "r", "c", "e", "_", "p", "a", "t", "h", " ", "n", "o", "t", " ", "f", "o", "u", "n", "d">>
            /\ UNCHANGED <<label, invisible_heading>>
     ELSE IF FileName(ch.source_path) = NoPath
       THEN /\ pc' = "failed"
            /\ error' = <<"l", "a", "b", "e", "l", " ", "n", "o", "t", " ", "f", "o", "u", "n", "d">>
            /\ UNCHANGED <<label, invisible_heading>>
     ELSE LET l == LabelOf(FileName(ch.source_path))
          IN /\ pc' = "events"
             /\ label' = l
             /\ invisible_heading' = InvisibleHeading(ch.number, ch.name, l, section_number)
             /\ UNCHANGED error
  /\ UNCHANGED <<ch, section_number, parserVars, localVars, book_item_str, fsVars,
                 bookVars, mainVars>>

----------------------------------------------------------------------------
(* convert_content: one action per arm of the match *)

\* a variant of HeadingStartOf that forgets heading.clear()
HeadingStartNoClear(levels) ==
  \E level \in levels :
    /\ ParserStart(StartEv("Heading", <<>>, level))
    /\ event_stack' = Append(event_stack, Frame("Heading", <<>>))
    /\ Write(<<HeadingOpen(level)>>)
    /\ UNCHANGED <<heading, writen_invisible_heading, fsVars>>
    /\ Continue

HeadingStartOf(levels) ==
  \E level \in levels :
    /\ ParserStart(StartEv("Heading", <<>>, level))
    /\ event_stack' = Append(event_stack, Frame("Heading", <<>>))
    /\ heading' = <<>>
    /\ Write(<<HeadingOpen(level)>>)
    /\ UNCHANGED <<writen_invisible_heading, fsVars>>
    /\ Continue

HeadingStart == HeadingStartOf(Levels)

\* a variant of HeadingEnd that never sets writen_invisible_heading
HeadingEndNoFlag ==
  /\ ParserEnd("Heading")
  /\ event_stack' = Pop(event_stack)
  /\ Write(<<HeadingClose(label, heading)>>
           \o (IF ~writen_invisible_heading
                 THEN <<InvisibleHeadingLine(invisible_heading)>> ELSE <<>>))
  /\ UNCHANGED <<heading, writen_invisible_heading, fsVars>>
  /\ Continue

HeadingEnd ==
  /\ ParserEnd("Heading")
  /\ event_stack' = Pop(event_stack)
  /\ Write(<<HeadingClose(label, heading)>>
           \o (IF ~writen_invisible_heading
                 THEN <<InvisibleHeadingLine(invisible_heading)>> ELSE <<>>))
  /\ writen_invisible_heading' = TRUE
  /\ UNCHANGED <<heading, fsVars>>
  /\ Continue

EmphasisStart ==
  /\ ParserStart(StartEv("Emphasis", <<>>, 0))
  /\ Write(<<<<"_">>>>)
  /\ UNCHANGED <<heading, writen_invisible_heading, event_stack, fsVars>>
  /\ Continue

EmphasisEnd ==
  /\ ParserEnd("Emphasis")
  /\ Write(<<<<"_">>>>)
  /\ UNCHANGED <<heading, writen_invisible_heading, event_stack, fsVars>>
  /\ Continue

StrongStart ==
  /\ ParserStart(StartEv("Strong", <<>>, 0))
  /\ Write(<<<<"*">>>>)
  /\ UNCHANGED <<heading, writen_invisible_heading, event_stack, fsVars>>
  /\ Continue

StrongEnd ==
  /\ ParserEnd("Strong")
  /\ Write(<<<<"*">>>>)
  /\ UNCHANGED <<heading, writen_invisible_heading, event_stack, fsVars>>
  /\ Continue

BlockQuoteStart ==
  /\ ParserStart(StartEv("BlockQuote", <<>>, 0))
  /\ Write(<<<<"#", "q", "u", "o", "t", "e", "(", "b", "l", "o", "c", "k", ":", " ", "t", "r", "u", "e", ")", "[">>>>)
  /\ UNCHANGED <<heading, writen_invisible_heading, event_stack, fsVars>>
  /\ Continue

BlockQuoteEnd ==
  /\ ParserEnd("BlockQuote")
  /\ Write(<<<<"]", "\n">>>>)
  /\ UNCHANGED <<heading, writen_invisible_heading, event_stack, fsVars>>
  /\ Continue

\* Start(Tag::List(None))
ListStart ==
  /\ ParserStart(StartEv("List", <<>>, 0))
  /\ event_stack' = Append(event_stack, Frame("List", <<>>))
  /\ UNCHANGED <<content_str, heading, writen_invisible_heading, fsVars>>
  /\ Continue

\* Start(Tag::List(Some(_)))
NumberedListStart ==
  /\ ParserStart(StartEv("List", <<>>, 1))
  /\ event_stack' = Append(event_stack, Frame("NumberedList", <<>>))
  /\ UNCHANGED <<content_str, heading, writen_invisible_heading, fsVars>>
  /\ Continue

ListEnd ==
  /\ ParserEnd("List")
  /\ event_stack' = Pop(event_stack)
  /\ UNCHANGED <<content_str, heading, writen_invisible_heading, fsVars>>
  /\ Continue

\* a variant of ItemMarker that looks at the outermost frame
ItemMarkerOutermost(stack) ==
  IF stack # <<>> /\ stack[1].type = "NumberedList" THEN <<"+", " ">> ELSE <<"-", " ">>

\* the marker of an item, by event_stack.last()
ItemMarker(stack) ==
  CASE LastType(stack) = "List" -> <<"-", " ">>
    [] LastType(stack) = "NumberedList" -> <<"+", " ">>
    [] OTHER -> <<"-", " ">>

ItemStart ==
  /\ ParserStart(StartEv("Item", <<>>, 0))
  /\ Write(<<ItemMarker(event_stack)>>)
  /\ UNCHANGED <<heading, writen_invisible_heading, event_stack, fsVars>>
  /\ Continue

ItemEnd ==
  /\ ParserEnd("Item")
  /\ Write(<<<<"\n">>>>)
  /\ UNCHANGED <<heading, writen_invisible_heading, event_stack, fsVars>>
  /\ Continue

ParagraphStart ==
  /\ ParserStart(StartEv("Paragraph", <<>>, 0))
  /\ UNCHANGED <<localVars, fsVars>>
  /\ Continue

ParagraphEnd ==
  /\ ParserEnd("Paragraph")
  /\ Write(<<<<"\n", "\n">>>>)
  /\ UNCHANGED <<heading, writen_invisible_heading, event_stack, fsVars>>
  /\ Continue

LinkStartOf(dests) ==
  \E dest_url \in dests :
    /\ ParserStart(StartEv("Link", dest_url, 0))
    /\ Write(<<LinkOpen(dest_url, label)>>)
    /\ UNCHANGED <<heading, writen_invisible_heading, event_stack, fsVars>>
    /\ Continue

LinkStart == LinkStartOf(LinkDests)

LinkEnd ==
  /\ ParserEnd("Link")
  /\ Write(<<<<"]">>>>)
  /\ UNCHANGED <<heading, writen_invisible_heading, event_stack, fsVars>>
  /\ Continue

TableStart ==
  \E align \in Aligns :
    /\ ParserStart(StartEv("Table", align, 0))
    /\ Write(<<TableOpen(align)>>)
    /\ UNCHANGED <<heading, writen_invisible_heading, event_stack, fsVars>>
    /\ Continue

TableEnd ==
  /\ ParserEnd("Table")
  /\ Write(<<<<")", "\n">>>>)
  /\ UNCHANGED <<heading, writen_invisible_heading, event_stack, fsVars>>
  /\ Continue

TableHeadStart ==
  /\ ParserStart(StartEv("TableHead", <<>>, 0))
  /\ event_stack' = Append(event_stack, Frame("TableHead", <<>>))
  /\ UNCHANGED <<content_str, heading, writen_invisible_heading, fsVars>>
  /\ Continue

TableHeadEnd ==
  /\ ParserEnd("TableHead")
  /\ event_stack' = Pop(event_stack)
  /\ UNCHANGED <<content_str, heading, writen_invisible_heading, fsVars>>
  /\ Continue

TableRowStart ==
  /\ ParserStart(StartEv("TableRow", <<>>, 0))
  /\ UNCHANGED <<localVars, fsVars>>
  /\ Continue

TableRowEnd ==
  /\ ParserEnd("TableRow")
  /\ UNCHANGED <<localVars, fsVars>>
  /\ Continue

TableCellStart ==
  /\ ParserStart(StartEv("TableCell", <<>>, 0))
  /\ Write(<<<<"[">>>>)
  /\ UNCHANGED <<heading, writen_invisible_heading, event_stack, fsVars>>
  /\ Continue

TableCellEnd ==
  /\ ParserEnd("TableCell")
  /\ Write(<<<<"]", ",", "\n">>>>)
  /\ UNCHANGED <<heading, writen_invisible_heading, event_stack, fsVars>>
  /\ Continue


\* a variant of ImageStartOf that writes the figure before it materialises
ImageStartFigureFirst(dests) ==
  \E dest_url \in dests, io \in IoOutcomes :
    LET r == Materialize(dest_files, dest_dirs, dest_url, io)
    IN /\ ParserStart(StartEv("Image", dest_url, 0))
       /\ event_stack' = Append(event_stack, Frame("Image", <<>>))
       /\ dest_files' = r.files
       /\ dest_dirs' = r.dirs
       /\ UNCHANGED <<heading, writen_invisible_heading>>
       /\ Write(<<Figure(dest_url)>>)
       /\ IF r.ok THEN Continue ELSE Fail(<<"i", "o", " ", "e", "r", "r", "o", "r">>)

\* a variant of ImageStartOf that empties the destination tree when it fails
ImageStartRollback(dests) ==
  \E dest_url \in dests, io \in IoOutcomes :
    LET r == Materialize(dest_files, dest_dirs, dest_url, io)
    IN /\ ParserStart(StartEv("Image", dest_url, 0))
       /\ event_stack' = Append(event_stack, Frame("Image", <<>>))
       /\ UNCHANGED <<heading, writen_invisible_heading>>
       /\ IF r.ok
            THEN /\ dest_files' = r.files
                 /\ dest_dirs' = r.dirs
                 /\ Write(<<Figure(dest_url)>>) /\ Continue
            ELSE /\ dest_files' = [p \in DOMAIN dest_files |-> "absent"]
                 /\ dest_dirs' = {}
                 /\ UNCHANGED content_str /\ Fail(<<"i", "o", " ", "e", "r", "r", "o", "r">>)

\* Start(Tag::Image): the frame is pushed, the asset materialised, the figure written
ImageStartOf(dests) ==
  \E dest_url \in dests, io \in IoOutcomes :
    LET r == Materialize(dest_files, dest_dirs, dest_url, io)
    IN /\ ParserStart(StartEv("Image", dest_url, 0))
       /\ event_stack' = Append(event_stack, Frame("Image", <<>>))
       /\ dest_files' = r.files
       /\ dest_dirs' = r.dirs
       /\ UNCHANGED <<heading, writen_invisible_heading>>
       /\ IF r.ok
            THEN Write(<<Figure(dest_url)>>) /\ Continue
            ELSE UNCHANGED content_str /\ Fail(<<"i", "o", " ", "e", "r", "r", "o", "r">>)

ImageStart == ImageStartOf(ImageDests)


\* a variant of ImageEnd that forgets event_stack.pop()
ImageEndNoPop ==
  /\ ParserEnd("Image")
  /\ Write(<<<<"\n">>>>)
  /\ UNCHANGED <<heading, writen_invisible_heading, event_stack, fsVars>>
  /\ Continue

ImageEnd ==
  /\ ParserEnd("Image")
  /\ event_stack' = Pop(event_stack)
  /\ Write(<<<<"\n">>>>)
  /\ UNCHANGED <<heading, writen_invisible_heading, fsVars>>
  /\ Continue

\* Start(Tag::CodeBlock(CodeBlockKind::Indented))
CodeBlockIndentedStart ==
  /\ ParserStart(StartEv("CodeBlock", <<>>, 0))
  /\ event_stack' = Append(event_stack, Frame("CodeBlockIndented", <<>>))
  /\ Write(<<<<"backtick", "backtick", "backtick", "backtick", "\n">>>>)
  /\ UNCHANGED <<heading, writen_invisible_heading, fsVars>>
  /\ Continue

\* Start(Tag::CodeBlock(CodeBlockKind::Fenced(lang)))
CodeBlockFencedStartOf(langs) ==
  \E lang \in langs :
    /\ ParserStart(StartEv("CodeBlock", lang, 1))
    /\ event_stack' = Append(event_stack, Frame("CodeBlockFenced", lang))
    /\ Write(<<FencedOpen(lang)>>)
    /\ UNCHANGED <<heading, writen_invisible_heading, fsVars>>
    /\ Continue

CodeBlockFencedStart == CodeBlockFencedStartOf(Langs)

\* End(TagEnd::CodeBlock): by event_stack.last(); the frame is popped at the end
CodeBlockEnd ==
  /\ ParserEnd("CodeBlock")
  /\ UNCHANGED <<heading, writen_invisible_heading>>
  /\ IF LastType(event_stack) = "CodeBlockFenced"
       THEN LET lang == Top(event_stack).lang
                toks == FerrisTokens(lang)
                paths == [i \in 1..Len(toks) |-> FerrisSrcPath(toks[i])]
            IN \E ios \in [1..Len(toks) -> IoOutcomes] :
                 LET r == MaterializeAll(dest_files, dest_dirs, paths, ios)
                 IN /\ dest_files' = r.files
                    /\ dest_dirs' = r.dirs
                    /\ IF r.ok
                         THEN /\ Write(<<FencedClose(lang)>>)
                              /\ event_stack' = Pop(event_stack)
                              /\ Continue
                         ELSE /\ UNCHANGED <<content_str, event_stack>>
                              /\ Fail(<<"i", "o", " ", "e", "r", "r", "o", "r">>)
       ELSE /\ Write(<<<<"backtick", "backtick", "backtick", "backtick", "\n">>>>)
            /\ event_stack' = Pop(event_stack)
            /\ UNCHANGED fsVars
            /\ Continue

\* may the parser produce a Text (or another inline leaf) here?
MayText == InlineContext \/ (open # <<>> /\ Top(open).tag = "CodeBlock")

\* Event::Code
CodeOf(codes) ==
  \E t \in codes :
    /\ ParserLeaf(Ev("Code", "", t, 0))
    /\ InlineContext
    /\ heading' = (IF ContainsHeading(event_stack) THEN heading \o t ELSE heading)
    /\ Write(<<InlineCode(t)>>)
    /\ UNCHANGED <<writen_invisible_heading, event_stack, fsVars>>
    /\ Continue

Code == CodeOf(Codes)

\* what html5ever makes of the raw markup: the first child of <body>, as
\* [name, src] (src is NoPath when the element has no src attribute; name is
\* "" when the body has no children or its first child is no element)
BodyFirst(t) ==
  CASE t = <<"<", "i", "m", "g", " ", "s", "r", "c", "=", "\"", "h", ".", "p", "n", "g", "\"", ">">> -> [name |-> "img", src |-> <<"h", ".", "p", "n", "g">>]
    [] t = <<"<", "i", "m", "g", ">">> -> [name |-> "img", src |-> NoPath]
    [] t = <<"<", "b", ">">> -> [name |-> "b", src |-> NoPath]
    [] t = <<"<", "s", "p", "a", "n", ">">> -> [name |-> "span", src |-> NoPath]
    [] OTHER -> [name |-> "", src |-> NoPath]

\* a variant of RawHtmlOf that passes markup it does not know through
RawHtmlPassThrough(kind, payloads) ==
  \E t \in payloads, io \in IoOutcomes :
    /\ ParserLeaf(Ev(kind, "", t, 0))
    /\ UNCHANGED <<heading, writen_invisible_heading, event_stack>>
    /\ IF t = <<"<", "s", "u", "p", ">">>
         THEN Write(<<<<"#", "s", "u", "p", "e", "r", "[">>>>) /\ UNCHANGED fsVars /\ Continue
       ELSE IF t = <<"<", "/", "s", "u", "p", ">">>
         THEN Write(<<<<"]">>>>) /\ UNCHANGED fsVars /\ Continue
       ELSE IF BodyFirst(t).name = "img" /\ BodyFirst(t).src # NoPath
         THEN LET r == Materialize(dest_files, dest_dirs, BodyFirst(t).src, io)
              IN /\ dest_files' = r.files
                 /\ dest_dirs' = r.dirs
                 /\ IF r.ok
                      THEN Write(<<Figure(BodyFirst(t).src) \o <<"\n">>>>) /\ Continue
                      ELSE UNCHANGED content_str /\ Fail(<<"i", "o", " ", "e", "r", "r", "o", "r">>)
       ELSE Write(<<t>>) /\ UNCHANGED fsVars /\ Continue

\* Event::Html | Event::InlineHtml
RawHtmlOf(kind, payloads) ==
  \E t \in payloads, io \in IoOutcomes :
    /\ ParserLeaf(Ev(kind, "", t, 0))
    /\ UNCHANGED <<heading, writen_invisible_heading, event_stack>>
    /\ IF t = <<"<", "s", "u", "p", ">">>
         THEN Write(<<<<"#", "s", "u", "p", "e", "r", "[">>>>) /\ UNCHANGED fsVars /\ Continue
       ELSE IF t = <<"<", "/", "s", "u", "p", ">">>
         THEN Write(<<<<"]">>>>) /\ UNCHANGED fsVars /\ Continue
       ELSE IF BodyFirst(t).name = "img" /\ BodyFirst(t).src # NoPath
         THEN LET r == Materialize(dest_files, dest_dirs, BodyFirst(t).src, io)
              IN /\ dest_files' = r.files
                 /\ dest_dirs' = r.dirs
                 /\ IF r.ok
                      THEN Write(<<Figure(BodyFirst(t).src) \o <<"\n">>>>) /\ Continue
                      ELSE UNCHANGED content_str /\ Fail(<<"i", "o", " ", "e", "r", "r", "o", "r">>)
       ELSE UNCHANGED <<content_str, fsVars>> /\ Continue

RawHtml(kind) == RawHtmlOf(kind, HtmlPayloads)

HtmlOf(payloads) ==
  /\ open # <<>> /\ Top(open).tag = "HtmlBlock"
  /\ RawHtmlOf("Html", payloads)

Html == HtmlOf(HtmlPayloads)

InlineHtmlOf(payloads) ==
  /\ InlineContext
  /\ RawHtmlOf("InlineHtml", payloads)

InlineHtml == InlineHtmlOf(HtmlPayloads)

\* Event::Text
TextOf(texts) ==
  \E t \in texts :
    /\ ParserLeaf(Ev("Text", "", t, 0))
    /\ MayText
    /\ heading' = (IF ContainsHeading(event_stack) THEN heading \o t ELSE heading)
    /\ Write(<<TextOut(LastType(event_stack), t)>>)
    /\ UNCHANGED <<writen_invisible_heading, event_stack, fsVars>>
    /\ Continue

Text == TextOf(Texts)

SoftBreak ==
  /\ ParserLeaf(Ev("SoftBreak", "", <<>>, 0))
  /\ InlineContext
  /\ Write(<<<<"\n">>>>)
  /\ UNCHANGED <<heading, writen_invisible_heading, event_stack, fsVars>>
  /\ Continue

\* a variant of Other that translates strikethrough
OtherStrikes ==
  /\ \/ \E tag \in OtherTags :
          /\ ParserStart(StartEv(tag, <<>>, 0))
          /\ content_str' = (IF tag = "Strikethrough"
                               THEN content_str \o <<<<"#", "s", "t", "r", "i", "k", "e", "[">>>> ELSE content_str)
     \/ \E tag \in OtherTags :
          /\ ParserEnd(tag)
          /\ content_str' = (IF tag = "Strikethrough"
                               THEN content_str \o <<<<"]">>>> ELSE content_str)
     \/ \E v \in OtherLeaves :
          /\ ParserLeaf(Ev("Other", v, <<>>, 0))
          /\ IF v = "Rule" THEN BlockContext ELSE InlineContext
          /\ UNCHANGED content_str
  /\ UNCHANGED <<heading, writen_invisible_heading, event_stack, fsVars>>
  /\ Continue

\* the arm _ => (): every other event
Other ==
  /\ \/ \E tag \in OtherTags : ParserStart(StartEv(tag, <<>>, 0))
     \/ \E tag \in OtherTags : ParserEnd(tag)
     \/ \E v \in OtherLeaves :
          /\ ParserLeaf(Ev("Other", v, <<>>, 0))
          /\ IF v = "Rule" THEN BlockContext ELSE InlineContext
  /\ UNCHANGED <<localVars, fsVars>>
  /\ Continue

\* a variant of ContentDone that supplies the invisible heading of a chapter
\* without headings
ContentDoneMarkerAlways ==
  /\ pc = "events"
  /\ open = <<>>
  /\ pc' = "done"
  /\ book_item_str' = Flatten(content_str)
       \o (IF writen_invisible_heading THEN <<>> ELSE InvisibleHeadingLine(invisible_heading))
       \o <<"#", "p", "a", "g", "e", "b", "r", "e", "a", "k", "(", "w", "e", "a", "k", ":", " ", "t", "r", "u", "e", ")", "\n">>
  /\ UNCHANGED <<chapterVars, parserVars, localVars, error, fsVars, bookVars, mainVars>>

\* an End event that closes nothing: the tag is not open in the stream
ParserStrayEnd(tag) ==
  /\ pc = "events"
  /\ ~InsideTag(tag)
  /\ Len(events) + Len(open) + 1 <= max_events
  /\ events' = Append(events, EndEv(tag))
  /\ UNCHANGED <<open, max_events>>

\* the End arms of Heading, List, TableHead, Image and CodeBlock on such an
\* event: pop leaves an empty stack empty, last() is no code block
StrayEnd ==
  \E tag \in {"Heading", "List", "TableHead", "Image", "CodeBlock"} :
    /\ ParserStrayEnd(tag)
    /\ event_stack' = Pop(event_stack)
    /\ CASE tag = "Heading" ->
              /\ Write(<<HeadingClose(label, heading)>>
                       \o (IF ~writen_invisible_heading
                             THEN <<InvisibleHeadingLine(invisible_heading)>> ELSE <<>>))
              /\ writen_invisible_heading' = TRUE
         [] tag \in {"List", "TableHead"} ->
              UNCHANGED <<content_str, writen_invisible_heading>>
         [] tag = "Image" ->
              Write(<<<<"\n">>>>) /\ UNCHANGED writen_invisible_heading
         [] tag = "CodeBlock" ->
              Write(<<<<"backtick", "backtick", "backtick", "backtick", "\n">>>>) /\ UNCHANGED writen_invisible_heading
    /\ UNCHANGED <<heading, fsVars>>
    /\ Continue

\* the parser is exhausted: Ok(content_str), and convert_book_item's writeln
ContentDone ==
  /\ pc = "events"
  /\ open = <<>>
  /\ pc' = "done"
  /\ book_item_str' = Flatten(content_str) \o <<"#", "p", "a", "g", "e", "b", "r", "e", "a", "k", "(", "w", "e", "a", "k", ":", " ", "t", "r", "u", "e", ")", "\n">>
  /\ UNCHANGED <<chapterVars, parserVars, localVars, error, fsVars, bookVars, mainVars>>

----------------------------------------------------------------------------
(* convert_typst and main *)

TitleMarker == <<"M", "D", "B", "O", "O", "K", "_", "T", "Y", "P", "S", "T", "_", "P", "D", "F", "_", "T", "I", "T", "L", "E">>
placeholder == <<"/", "*", "*", "*", "*", " ", "M", "D", "B", "O", "O", "K", "_", "T", "Y", "P", "S", "T", "_", "P", "D", "F", "_", "P", "L", "A", "C", "E", "H", "O", "L", "D", "E", "R", " ", "*", "*", "*", "*", "/", "\n">>

\* Option::None of the title, and of the markup file
NoTitle == <<"None">>
NoFile == <<"None">>

\* str::find: the 0-based offset of the first occurrence of pat in s, or -1
Find(s, pat) ==
  LET hits == {i \in 1..(Len(s) - Len(pat) + 1) : SubSeq(s, i, i + Len(pat) - 1) = pat}
  IN IF hits = {} THEN -1 ELSE (CHOOSE i \in hits : \A j \in hits : i <= j) - 1

\* str::replace of a pattern by a string: every non-overlapping occurrence
RECURSIVE ReplaceStr(_, _, _)
ReplaceStr(s, pat, to) ==
  LET k == Find(s, pat)
  IN IF k < 0 THEN s
     ELSE SubSeq(s, 1, k) \o to \o ReplaceStr(SubSeq(s, k + Len(pat) + 1, Len(s)), pat, to)

\* String::insert_str at a byte offset
InsertStr(s, idx, t) == SubSeq(s, 1, idx) \o t \o SubSeq(s, idx + 1, Len(s))

\* a variant of SpliceTarget that stops in front of the placeholder
SpliceTargetBefore(s) == IF Find(s, placeholder) < 0 THEN 0 ELSE Find(s, placeholder)

\* the target of the splice: find(placeholder).unwrap_or_default() + placeholder.len()
SpliceTarget(s) ==
  (IF Find(s, placeholder) < 0 THEN 0 ELSE Find(s, placeholder)) + Len(placeholder)

\* convert_typst up to its loop: the title and the substituted template
convert_typst ==
  /\ pc = "convert_typst"
  /\ IF title = NoTitle
       THEN /\ pc' = "failed"
            /\ error' = <<"t", "i", "t", "l", "e", " ", "n", "o", "t", " ", "f", "o", "u", "n", "d">>
            /\ UNCHANGED output_template
       ELSE /\ pc' = "book_item"
            /\ output_template' = ReplaceStr(template, TitleMarker, title)
            /\ UNCHANGED error
  /\ UNCHANGED <<chapterVars, parserVars, localVars, book_item_str, fsVars, mainVars,
                 book, item, title, template, typst_str>>

\* a variant of NextBookItem that goes on with the next item after a failed one
NextBookItemSkipFailed ==
  /\ pc \in {"done", "failed"}
  /\ item <= Len(book)
  /\ typst_str' = Append(typst_str, book_item_str \o <<"\n">>)
  /\ item' = item + 1
  /\ IF item < Len(book)
       THEN /\ pc' = "book_item"
            /\ ch' = book[item + 1]
            /\ events' = <<>>
            /\ open' = <<>>
            /\ content_str' = <<>>
            /\ heading' = <<>>
            /\ writen_invisible_heading' = FALSE
            /\ event_stack' = <<>>
            /\ book_item_str' = <<>>
       ELSE /\ pc' = "splice"
            /\ UNCHANGED <<ch, events, open, localVars, book_item_str>>
  /\ UNCHANGED <<section_number, label, invisible_heading, max_events, error, fsVars,
                 mainVars, book, title, template, output_template>>

\* a variant of NextBookItem in which the marker flag outlives the chapter
NextBookItemKeepsFlag ==
  /\ pc = "done"
  /\ item <= Len(book)
  /\ typst_str' = Append(typst_str, book_item_str \o <<"\n">>)
  /\ item' = item + 1
  /\ IF item < Len(book)
       THEN /\ pc' = "book_item"
            /\ ch' = book[item + 1]
            /\ events' = <<>>
            /\ open' = <<>>
            /\ content_str' = <<>>
            /\ heading' = <<>>
            /\ event_stack' = <<>>
            /\ book_item_str' = <<>>
            /\ UNCHANGED writen_invisible_heading
       ELSE /\ pc' = "splice"
            /\ UNCHANGED <<ch, events, open, localVars, book_item_str>>
  /\ UNCHANGED <<section_number, label, invisible_heading, max_events, error, fsVars,
                 mainVars, book, title, template, output_template>>

\* the loop of convert_typst: writeln!(typst_str, "{}", convert_book_item(..)?)
NextBookItem ==
  /\ pc = "done"
  /\ item <= Len(book)
  /\ typst_str' = Append(typst_str, book_item_str \o <<"\n">>)
  /\ item' = item + 1
  /\ IF item < Len(book)
       THEN /\ pc' = "book_item"
            /\ ch' = book[item + 1]
            /\ events' = <<>>
            /\ open' = <<>>
            /\ content_str' = <<>>
            /\ heading' = <<>>
            /\ writen_invisible_heading' = FALSE
            /\ event_stack' = <<>>
            /\ book_item_str' = <<>>
       ELSE /\ pc' = "splice"
            /\ UNCHANGED <<ch, events, open, localVars, book_item_str>>
  /\ UNCHANGED <<section_number, label, invisible_heading, max_events, error, fsVars,
                 mainVars, book, title, template, output_template>>

\* the splice: insert_str panics when the offset is past the end of the string
Splice ==
  /\ pc = "splice"
  /\ LET target == SpliceTarget(output_template)
     IN IF target > Len(output_template)
          THEN pc' = "panicked" /\ UNCHANGED output_template
          ELSE /\ pc' = "returned"
               /\ output_template' = InsertStr(output_template, target, Flatten(typst_str))
  /\ UNCHANGED <<chapterVars, parserVars, localVars, book_item_str, error, fsVars, mainVars,
                 book, item, title, template, typst_str>>

\* main after convert_typst returned Ok: the markup file and the export, if cfg.pdf
main ==
  /\ pc = "returned"
  /\ pc' = "exit"
  /\ IF pdf
       THEN typ_file' = output_template /\ export_started' = TRUE
       ELSE UNCHANGED <<typ_file, export_started>>
  /\ UNCHANGED <<chapterVars, parserVars, localVars, book_item_str, error, fsVars,
                 bookVars, pdf>>

----------------------------------------------------------------------------
(* The books of the model and the specifications *)

Chapter(source_path, name, number) ==
  [source_path |-> source_path, name |-> name, number |-> number]

Chapters ==
  {Chapter(<<"c", ".", "m", "d">>, <<"N">>, <<1, 2>>), Chapter(<<"d", "/", "a", "@", "b", ".", "m", "d">>, <<"M">>, NoNumber),
   Chapter(NoPath, <<"P">>, <<2>>)}

NoFiles == [p \in AssetPaths |-> "absent"]

\* the state at the call of convert_book_item, for the books of one specification
InitOf(chapters, flags, trees, limit) ==
  /\ pc = "book_item"
  /\ ch \in chapters
  /\ section_number \in flags
  /\ events = <<>>
  /\ open = <<>>
  /\ label = <<>>
  /\ invisible_heading = <<>>
  /\ content_str = <<>>
  /\ heading = <<>>
  /\ writen_invisible_heading = FALSE
  /\ event_stack = <<>>
  /\ book_item_str = <<>>
  /\ error = <<>>
  /\ dest_files \in trees
  /\ dest_dirs = DirsOf(dest_files)
  /\ max_events = limit
  /\ book = <<ch>>
  /\ item = 1
  /\ title = <<"T">>
  /\ template = placeholder
  /\ output_template = <<>>
  /\ typst_str = <<>>
  /\ pdf = FALSE
  /\ typ_file = NoFile
  /\ export_started = FALSE

Init ==
  InitOf(Chapters, BOOLEAN, {NoFiles, [NoFiles EXCEPT ![<<"a", ".", "p", "n", "g">>] = "stale"]}, MaxEvents)

Next ==
  \/ convert_book_item
  \/ HeadingStart \/ HeadingEnd
  \/ EmphasisStart \/ EmphasisEnd \/ StrongStart \/ StrongEnd
  \/ BlockQuoteStart \/ BlockQuoteEnd
  \/ ListStart \/ NumberedListStart \/ ListEnd \/ ItemStart \/ ItemEnd
  \/ ParagraphStart \/ ParagraphEnd
  \/ LinkStart \/ LinkEnd
  \/ TableStart \/ TableEnd \/ TableHeadStart \/ TableHeadEnd
  \/ TableRowStart \/ TableRowEnd \/ TableCellStart \/ TableCellEnd
  \/ ImageStart \/ ImageEnd
  \/ CodeBlockIndentedStart \/ CodeBlockFencedStart \/ CodeBlockEnd
  \/ Code \/ Html \/ InlineHtml \/ Text \/ SoftBreak \/ Other
  \/ ContentDone

Spec == Init /\ [][Next]_vars

----------------------------------------------------------------------------
(* Nesting: lists, items and the five constructs that push a frame *)

OneChapter == Chapter(<<"c", ".", "m", "d">>, <<"N">>, <<1, 2>>)

InitNesting == InitOf({OneChapter}, {TRUE}, {NoFiles}, MaxNestingEvents)

NextNesting ==
  \/ convert_book_item
  \/ ListStart \/ NumberedListStart \/ ListEnd \/ ItemStart \/ ItemEnd
  \/ HeadingStartOf({1}) \/ HeadingEnd
  \/ CodeBlockIndentedStart \/ CodeBlockEnd
  \/ ImageStartOf({<<"a", ".", "p", "n", "g">>}) \/ ImageEnd
  \/ TableStart \/ TableEnd \/ TableHeadStart \/ TableHeadEnd
  \/ TableCellStart \/ TableCellEnd
  \/ TextOf({<<"A", "b">>})
  \/ ContentDone

SpecNesting == InitNesting /\ [][NextNesting]_vars

----------------------------------------------------------------------------
(* Headings: anchors and the invisible heading *)

AtChapter == Chapter(<<"d", "/", "a", "@", "b", ".", "m", "d">>, <<"M">>, NoNumber)
HeadingTexts == {<<"A", "b">>, <<"a", " ", "b">>, <<"A", "-", "b">>}

InitHeadings == InitOf({OneChapter, AtChapter}, {TRUE}, {NoFiles}, MaxHeadingEvents)

NextHeadings ==
  \/ convert_book_item
  \/ HeadingStartOf({1}) \/ HeadingEnd
  \/ ParagraphStart \/ ParagraphEnd
  \/ TextOf(HeadingTexts) \/ CodeOf(Codes)
  \/ ContentDone

SpecHeadings == InitHeadings /\ [][NextHeadings]_vars

----------------------------------------------------------------------------
(* Prose: Text payloads in paragraphs and headings *)

ProseChars == {"a", "\\", "#"}

\* the strings of length 1..n over ProseChars
RECURSIVE StringsUpTo(_)
StringsUpTo(n) ==
  IF n = 0 THEN {<<>>}
  ELSE LET shorter == StringsUpTo(n - 1)
       IN shorter \cup {Append(t, c) : t \in shorter, c \in ProseChars}

ProseTexts == (StringsUpTo(MaxTextLen) \ {<<>>}) \cup {<<c>> : c \in ReservedChars}

InitProse == InitOf({OneChapter}, {TRUE}, {NoFiles}, MaxProseEvents)

NextProse ==
  \/ convert_book_item
  \/ ParagraphStart \/ ParagraphEnd
  \/ HeadingStartOf({1}) \/ HeadingEnd
  \/ TextOf(ProseTexts)
  \/ ContentDone

SpecProse == InitProse /\ [][NextProse]_vars

----------------------------------------------------------------------------
(* Contexts: Text and Code in paragraphs, code blocks and table heads *)

InitContexts == InitOf({OneChapter}, {TRUE}, {NoFiles}, MaxContextEvents)

NextContexts ==
  \/ convert_book_item
  \/ ParagraphStart \/ ParagraphEnd
  \/ CodeBlockIndentedStart \/ CodeBlockFencedStartOf({<<"r", "u", "s", "t">>}) \/ CodeBlockEnd
  \/ TableStart \/ TableEnd \/ TableHeadStart \/ TableHeadEnd
  \/ TableCellStart \/ TableCellEnd
  \/ TextOf(Texts) \/ CodeOf(Codes)
  \/ ContentDone

SpecContexts == InitContexts /\ [][NextContexts]_vars

----------------------------------------------------------------------------
(* Links *)

LinkTargets ==
  LinkDests \cup {<<"h", "t", "t", "p", ":", "/", "/", "x", "@", "y", ".", "c", "c">>, <<"a", "#", "b", "#", "c">>, <<"#", "a", "b">>, <<"c", ".", "h", "t", "m", "l", "#", "a", "b">>, <<"c", ".", "h", "t", "m", "l">>,
                  <<"a", "@", "b", ".", "h", "t", "m", "l", "#", "a", "b">>, <<"a", "@", "b", ".", "h", "t", "m", "l">>, <<"a", "#", "b", ".", "h", "t", "m", "l", "#", "a", "b">>, <<"a", "#", "b", ".", "h", "t", "m", "l">>,
                  <<"a", "@", "b", "c", "d", "e">>, <<"a", "@", "b">>}

\* a chapter whose file name holds a '#'
HashChapter == Chapter(<<"a", "#", "b", ".", "m", "d">>, <<"H">>, NoNumber)

InitLinks == InitOf({OneChapter, AtChapter, HashChapter}, {TRUE}, {NoFiles}, MaxLinkEvents)

NextLinks ==
  \/ convert_book_item
  \/ HeadingStartOf({1}) \/ HeadingEnd
  \/ ParagraphStart \/ ParagraphEnd
  \/ LinkStartOf(LinkTargets) \/ LinkEnd
  \/ TextOf({<<"A", "b">>})
  \/ ContentDone

SpecLinks == InitLinks /\ [][NextLinks]_vars

----------------------------------------------------------------------------
(* Assets: a book of two chapters over a destination tree that may hold files *)

\* the state at the call of convert_typst
InitBook(books, flags, trees, limit, titles, templates, pdfs) ==
  /\ pc = "convert_typst"
  /\ book \in books
  /\ ch = book[1]
  /\ item = 1
  /\ section_number \in flags
  /\ events = <<>>
  /\ open = <<>>
  /\ label = <<>>
  /\ invisible_heading = <<>>
  /\ content_str = <<>>
  /\ heading = <<>>
  /\ writen_invisible_heading = FALSE
  /\ event_stack = <<>>
  /\ book_item_str = <<>>
  /\ error = <<>>
  /\ dest_files \in trees
  /\ dest_dirs = DirsOf(dest_files)
  /\ max_events = limit
  /\ title \in titles
  /\ template \in templates
  /\ output_template = <<>>
  /\ typst_str = <<>>
  /\ pdf \in pdfs
  /\ typ_file = NoFile
  /\ export_started = FALSE

\* a destination tree left by an earlier run, one of its files gone from the source
StaleTree == [NoFiles EXCEPT ![<<"a", ".", "p", "n", "g">>] = "stale", ![<<"n", "o", ".", "p", "n", "g">>] = "stale"]

InitAssets ==
  InitBook({<<OneChapter, AtChapter>>}, {TRUE}, {NoFiles, StaleTree}, MaxAssetEvents,
           {<<"T">>}, {placeholder}, {TRUE})

NextAssets ==
  \/ convert_typst
  \/ convert_book_item
  \/ ParagraphStart \/ ParagraphEnd
  \/ ImageStartOf(ImageDests) \/ ImageEnd
  \/ InlineHtml
  \/ CodeBlockFencedStartOf({<<"r", "u", "s", "t", ",", "p", "a", "n", "i", "c", "s">>}) \/ CodeBlockEnd
  \/ ContentDone
  \/ NextBookItem
  \/ Splice
  \/ main

SpecAssets == InitAssets /\ [][NextAssets]_vars

----------------------------------------------------------------------------
(* Books: convert_typst and main over books of two items *)

\* BookItem::Separator
Separator == [separator |-> TRUE]

\* a draft chapter of SUMMARY.md, which has no source path
DraftChapter == Chapter(NoPath, <<"P">>, <<2>>)

\* a chapter whose name is the title marker of the template
TitledChapter == Chapter(<<"t", ".", "m", "d">>, TitleMarker, NoNumber)

Books ==
  {<<OneChapter, TitledChapter>>,
   <<OneChapter, Chapter(<<"d", "/", "c", ".", "m", "d">>, <<"D">>, <<2>>)>>,
   <<Chapter(<<"c", ".", "x", ".", "m", "d">>, <<"X">>, NoNumber), OneChapter>>,
   <<OneChapter, DraftChapter>>,
   <<Separator, OneChapter>>}

\* templates: the marker once, twice, and not at all (shorter and longer than it)
Templates ==
  {<<"=", " ", "M", "D", "B", "O", "O", "K", "_", "T", "Y", "P", "S", "T", "_", "P", "D", "F", "_", "T", "I", "T", "L", "E", "\n">> \o placeholder \o <<"e", "n", "d", "\n">>,
   placeholder \o <<"m", "i", "d", "\n">> \o placeholder,
   <<"=", " ", "M", "D", "B", "O", "O", "K", "_", "T", "Y", "P", "S", "T", "_", "P", "D", "F", "_", "T", "I", "T", "L", "E", "\n">>,
   <<"=", " ", "M", "D", "B", "O", "O", "K", "_", "T", "Y", "P", "S", "T", "_", "P", "D", "F", "_", "T", "I", "T", "L", "E", "\n", "#", "s", "e", "t", " ", "p", "a", "g", "e", "(", "n", "u", "m", "b", "e", "r", "i", "n", "g", ":", " ", "\"", "1", "\"", ")", "\n", "#", "o", "u", "t", "l", "i", "n", "e", "(", ")", "\n">>}

InitBooks ==
  InitBook(Books, {FALSE}, {NoFiles}, MaxBookEvents, {<<"T">>, NoTitle}, Templates, BOOLEAN)

NextBooks ==
  \/ convert_typst
  \/ convert_book_item
  \/ HeadingStartOf({1}) \/ HeadingEnd
  \/ ParagraphStart \/ ParagraphEnd
  \/ ImageStartOf({<<"a", ".", "p", "n", "g">>, <<"n", "o", ".", "p", "n", "g">>}) \/ ImageEnd
  \/ TextOf({<<"A", "b">>})
  \/ ContentDone
  \/ NextBookItem
  \/ Splice
  \/ main

SpecBooks == InitBooks /\ [][NextBooks]_vars

----------------------------------------------------------------------------
(* Streams that are not well nested *)

InitStray == InitOf({OneChapter}, {TRUE}, {NoFiles}, MaxStrayEvents)

NextStray ==
  \/ convert_book_item
  \/ ListStart \/ ItemStart \/ ItemEnd \/ ListEnd
  \/ HeadingStartOf({1}) \/ HeadingEnd
  \/ TextOf({<<"A", "b">>})
  \/ StrayEnd
  \/ ContentDone

SpecStray == InitStray /\ [][NextStray]_vars

----------------------------------------------------------------------------
(* Brackets: text with '[' and ']' inside the constructs written with brackets *)

BracketTexts == {<<"a">>, <<"]">>, <<"[", "a">>}

InitBrackets == InitOf({OneChapter}, {TRUE}, {NoFiles}, MaxBracketEvents)

NextBrackets ==
  \/ convert_book_item
  \/ HeadingStartOf({1}) \/ HeadingEnd
  \/ BlockQuoteStart \/ BlockQuoteEnd
  \/ ParagraphStart \/ ParagraphEnd
  \/ LinkStartOf({<<"#", "s", "e", "c">>}) \/ LinkEnd
  \/ TextOf(BracketTexts)
  \/ ContentDone

SpecBrackets == InitBrackets /\ [][NextBrackets]_vars

----------------------------------------------------------------------------
(* Fences: fenced code blocks and their info strings *)

FenceLangs ==
  {<<"r", "u", "s", "t">>, <<>>, <<"r", "u", "s", "t", ",", "p", "a", "n", "i", "c", "s">>, <<"p", "a", "n", "i", "c", "s">>, <<"r", "u", "s", "t", ",", " ", "p", "a", "n", "i", "c", "s">>,
   <<"r", "u", "s", "t", ",", "i", "g", "n", "o", "r", "e", ",", "d", "o", "e", "s", "_", "n", "o", "t", "_", "c", "o", "m", "p", "i", "l", "e">>, <<"p", "a", "n", "i", "c", "s", ",", "n", "o", "t", "_", "d", "e", "s", "i", "r", "e", "d", "_", "b", "e", "h", "a", "v", "i", "o", "r">>}

InitFences == InitOf({OneChapter}, {TRUE}, {NoFiles}, MaxFenceEvents)

NextFences ==
  \/ convert_book_item
  \/ CodeBlockFencedStartOf(FenceLangs) \/ CodeBlockEnd
  \/ TextOf({<<"a", "*">>})
  \/ ContentDone

SpecFences == InitFences /\ [][NextFences]_vars

----------------------------------------------------------------------------
(* Locality: the same chapters in either order, over two destination trees *)

InitLocal ==
  InitBook({<<OneChapter, AtChapter>>, <<AtChapter, OneChapter>>}, BOOLEAN,
           {NoFiles, StaleTree}, MaxLocalEvents, {<<"T">>}, {placeholder}, {FALSE})

NextLocal ==
  \/ convert_typst
  \/ convert_book_item
  \/ HeadingStartOf({1}) \/ HeadingEnd
  \/ ParagraphStart \/ ParagraphEnd
  \/ ImageStartOf({<<"a", ".", "p", "n", "g">>}) \/ ImageEnd
  \/ TextOf({<<"A", "b">>})
  \/ ContentDone
  \/ NextBookItem
  \/ Splice
  \/ main

SpecLocal == InitLocal /\ [][NextLocal]_vars

----------------------------------------------------------------------------
(* Alt content: the events between an Image Start and its End *)

InitAlt == InitOf({OneChapter}, {TRUE}, {NoFiles}, MaxAltEvents)

NextAlt ==
  \/ convert_book_item
  \/ ParagraphStart \/ ParagraphEnd
  \/ ImageStartOf({<<"a", ".", "p", "n", "g">>}) \/ ImageEnd
  \/ EmphasisStart \/ EmphasisEnd
  \/ TextOf(Texts) \/ CodeOf(Codes)
  \/ ContentDone

SpecAlt == InitAlt /\ [][NextAlt]_vars

----------------------------------------------------------------------------
(* Dropped markup: raw HTML and the events without an arm *)

DroppedPayloads ==
  HtmlPayloads \cup {<<"<", "i", "m", "g", ">">>, <<"<", "s", "p", "a", "n", ">">>, <<"h", "i", "<", "i", "m", "g", " ", "s", "r", "c", "=", "\"", "h", ".", "p", "n", "g", "\"", ">">>}

InitDropped == InitOf({OneChapter}, {TRUE}, {NoFiles}, MaxDroppedEvents)

NextDropped ==
  \/ convert_book_item
  \/ HeadingStartOf({1}) \/ HeadingEnd
  \/ ParagraphStart \/ ParagraphEnd
  \/ HtmlOf(DroppedPayloads) \/ InlineHtmlOf(DroppedPayloads)
  \/ Other
  \/ TextOf({<<"a", "*">>}) \/ CodeOf(Codes)
  \/ ContentDone

SpecDropped == InitDropped /\ [][NextDropped]_vars

----------------------------------------------------------------------------
(* Properties *)

\* the event a step has just handled, and what the step appended to the output
Handled == Len(events') = Len(events) + 1
LastEvent == Top(events')
Emitted == SubSeq(content_str', Len(content_str) + 1, Len(content_str'))

\* the five kinds of construct that push a frame, and the frame of an open tag
FrameTags == {"Heading", "List", "TableHead", "Image", "CodeBlock"}
FrameOfTag(e) ==
  CASE e.tag = "List" -> Frame(IF e.n = 1 THEN "NumberedList" ELSE "List", <<>>)
    [] e.tag = "CodeBlock" ->
         IF e.n = 1 THEN Frame("CodeBlockFenced", e.arg) ELSE Frame("CodeBlockIndented", <<>>)
    [] OTHER -> Frame(e.tag, <<>>)
OpenConstructs ==
  LET sel == SelectSeq(open, LAMBDA e : e.tag \in FrameTags)
  IN [i \in 1..Len(sel) |-> FrameOfTag(sel[i])]

\* C1: after every event of a well-nested stream the context stack is the list
\* of the currently open Heading, List, TableHead, Image and CodeBlock
\* constructs, outermost first, and it is empty after the chapter's last event.
C1_StackIsOpenConstructs ==
  /\ pc \in {"events", "done"} => event_stack = OpenConstructs
  /\ pc = "done" => event_stack = <<>>

\* C1 witness: two frames are open below a tag that pushes none, after a frame
\* has been pushed and popped.
C1_Witness ==
  /\ pc = "events"
  /\ Len(event_stack) = 2
  /\ Len(open) = 3
  /\ \E i \in 1..Len(events) : events[i].kind = "End" /\ events[i].tag \in FrameTags

\* the innermost open list is an ordered one
InnermostListOrdered ==
  LET lists == SelectSeq(open, LAMBDA e : e.tag = "List")
  IN lists # <<>> /\ Top(lists).n = 1

\* C10: every Item Start writes "+ " if the innermost list open at that moment
\* is ordered and "- " otherwise, however the lists are nested.
C10_ItemMarkerOfInnermostList ==
  [][(Handled /\ IsStartOf(LastEvent, "Item"))
       => Emitted = <<IF InnermostListOrdered THEN <<"+", " ">> ELSE <<"-", " ">>>>]_vars

\* the number of tags open after the first p events
DepthAfter(p) ==
  Cardinality({i \in 1..p : events[i].kind = "Start"})
    - Cardinality({i \in 1..p : events[i].kind = "End"})

\* C10 witness: an item of an ordered list that follows, inside that list, a
\* nested bullet list and a heading, and gets the numbered marker again.
C10_Witness ==
  /\ pc = "events"
  /\ events # <<>> /\ content_str # <<>>
  /\ IsStartOf(Top(events), "Item")
  /\ IsStartOf(events[1], "List") /\ events[1].n = 1
  /\ \A p \in 1..Len(events) : DepthAfter(p) >= 1
  /\ Len(open) = 2
  /\ \E i, j \in 2..Len(events) :
       /\ i < j
       /\ IsStartOf(events[i], "List") /\ events[i].n = 0
       /\ IsEndOf(events[j], "List")
  /\ \E i \in 1..Len(events) : IsEndOf(events[i], "Heading")
  /\ Top(content_str) = <<"+", " ">>

\* the Heading Ends among the events so far
HeadingEnds == {i \in 1..Len(events) : IsEndOf(events[i], "Heading")}

\* the writes that are the line of the invisible heading, and the anchor lines
MarkerWrites ==
  {i \in 1..Len(content_str) : content_str[i] = invisible_heading \o <<"\n">>}
AnchorWrites == {i \in 1..Len(content_str) : StartsWith(content_str[i], <<"]", " ", "<">>)}

\* C2: the invisible heading is written exactly once per chapter, directly
\* after the anchor line of the first Heading End, whatever follows.
C2_MarkerOnceAfterFirstHeading ==
  pc \in {"events", "done"} =>
    IF HeadingEnds = {} THEN MarkerWrites = {}
    ELSE /\ AnchorWrites # {}
         /\ MarkerWrites = {1 + CHOOSE i \in AnchorWrites : \A j \in AnchorWrites : i <= j}

\* C2 witness: a chapter with three headings has been translated
C2_Witness ==
  /\ pc = "done"
  /\ Cardinality(HeadingEnds) = 3
  /\ Cardinality(AnchorWrites) = 3
  /\ Cardinality(MarkerWrites) = 1

\* the payloads of the Text and Code events since the last Heading Start
RECURSIVE PlainTextSinceHeadingStart(_)
PlainTextSinceHeadingStart(evs) ==
  IF evs = <<>> \/ IsStartOf(Top(evs), "Heading") THEN <<>>
  ELSE PlainTextSinceHeadingStart(Front(evs))
         \o (IF Top(evs).kind \in {"Text", "Code"} THEN Top(evs).arg ELSE <<>>)

\* C3: at every Heading End the anchor written is "{label}.html-{normalize(H)}",
\* H being the payloads, in order, of the Text and InlineCode events since that
\* heading's Start and of nothing else.
C3_AnchorOfHeadingText ==
  [][(Handled /\ IsEndOf(LastEvent, "Heading"))
       => /\ Emitted # <<>>
          /\ Emitted[1] = <<"]", " ", "<">> \o label \o <<".", "h", "t", "m", "l", "-">>
                            \o normalize_id(PlainTextSinceHeadingStart(events)) \o <<">", "\n">>]_vars

\* C3 witness: the second heading of a chapter ends; it held a Text and an
\* InlineCode, and the first heading held a Text
C3_Witness ==
  /\ pc = "events"
  /\ events # <<>> /\ IsEndOf(Top(events), "Heading")
  /\ Cardinality(HeadingEnds) = 2
  /\ \E i \in 1..Len(events) :
       /\ events[i].kind = "Text"
       /\ \E j \in HeadingEnds : i < j /\ j < Len(events)
  /\ Len(events) >= 3
  /\ events[Len(events) - 1].kind = "Code"
  /\ events[Len(events) - 2].kind = "Text"
  /\ heading # <<>>

\* C4: within one chapter no two Heading Ends write the same anchor label.
C4_AnchorsDistinct ==
  \A i, j \in AnchorWrites : i # j => content_str[i] # content_str[j]

\* the tag of the innermost open construct that pushes a frame ("" if none)
InnermostConstruct ==
  LET sel == SelectSeq(open, LAMBDA e : e.tag \in FrameTags)
  IN IF sel = <<>> THEN "" ELSE Top(sel).tag

\* the number of reserved characters among the first i characters of t
ReservedBefore(t, i) == Cardinality({k \in 1..i : t[k] \in ReservedChars})

\* out with one backslash removed in front of each reserved character
RECURSIVE StripEscapes(_)
StripEscapes(out) ==
  IF out = <<>> THEN <<>>
  ELSE IF Len(out) >= 2 /\ out[1] = "\\" /\ out[2] \in ReservedChars
    THEN <<out[2]>> \o StripEscapes(SubSeq(out, 3, Len(out)))
  ELSE <<out[1]>> \o StripEscapes(Tail(out))

\* C5: a Text payload translated in the prose context is written with one
\* backslash inserted before each of # $ ` * _ < > @ and every other character
\* unchanged and in order; removing one backslash in front of each reserved
\* character of the output gives the payload back, backslashes included.
C5_EscapeRoundTrip ==
  [][(Handled /\ LastEvent.kind = "Text"
        /\ InnermostConstruct \notin {"CodeBlock", "TableHead", "Image"})
       => LET t == LastEvent.arg
          IN /\ Len(Emitted) = 1
             /\ Len(Emitted[1]) = Len(t) + ReservedBefore(t, Len(t))
             /\ \A i \in 1..Len(t) :
                  /\ Emitted[1][i + ReservedBefore(t, i)] = t[i]
                  /\ t[i] \in ReservedChars => Emitted[1][i + ReservedBefore(t, i) - 1] = "\\"
             /\ StripEscapes(Emitted[1]) = t]_vars

\* C5 witness: a payload that already holds a backslash before a reserved
\* character has been written, with one more backslash
C5_Witness ==
  /\ pc = "events"
  /\ events # <<>> /\ content_str # <<>>
  /\ Top(events).kind = "Text"
  /\ Top(events).arg = <<"a", "\\", "#">>
  /\ Top(content_str) = <<"a", "\\", "\\", "#">>

\* C6: the payload of a Text event inside a code block, and of every
\* InlineCode event, is written without a character added, removed or escaped
\* inside it.
C6_VerbatimPayloads ==
  [][/\ (Handled /\ LastEvent.kind = "Text" /\ InnermostConstruct = "CodeBlock")
          => Emitted = <<LastEvent.arg>>
     /\ (Handled /\ LastEvent.kind = "Code")
          => Emitted = <<<<"backtick", "backtick", "backtick", "backtick", " ">> \o LastEvent.arg \o <<" ", "backtick", "backtick", "backtick", "backtick">>>>]_vars

\* C6 witness: a payload with a reserved character has been written as it is
\* inside a fenced code block, after an InlineCode earlier in the chapter
C6_Witness ==
  /\ pc = "events"
  /\ events # <<>> /\ content_str # <<>>
  /\ Top(events).kind = "Text" /\ Top(events).arg = <<"a", "*">>
  /\ open # <<>> /\ Top(open).tag = "CodeBlock" /\ Top(open).n = 1
  /\ Top(content_str) = <<"a", "*">>
  /\ \E i \in 1..Len(events) : events[i].kind = "Code"

\* C7: a Text event whose innermost frame is TableHead is written between '*'
\* and '*' and, inside them, escaped as prose text is.
C7_TableHeadTextEscaped ==
  [][(Handled /\ LastEvent.kind = "Text" /\ LastType(event_stack) = "TableHead")
       => Emitted = <<<<"*">> \o transformed_text(LastEvent.arg) \o <<"*">>>>]_vars

\* dest with every '#' replaced by '-'
Dashed(dest) == [i \in 1..Len(dest) |-> IF dest[i] = "#" THEN "-" ELSE dest[i]]

\* C8: Link Start renders every destination in exactly one of four ways, the
\* first that applies: http(s) prefix, email pattern, '#' prefix, anything else.
C8_LinkClassification ==
  [][(Handled /\ IsStartOf(LastEvent, "Link"))
       => LET d == LastEvent.arg
          IN /\ Len(Emitted) = 1
             /\ Emitted[1] =
                  (IF StartsWith(d, <<"h", "t", "t", "p", ":", "/", "/">>) \/ StartsWith(d, <<"h", "t", "t", "p", "s", ":", "/", "/">>)
                     THEN <<"#", "l", "i", "n", "k", "(", "\"">> \o d \o <<"\"", ")", "[">>
                   ELSE IF email_regex_is_match(d)
                     THEN <<"#", "l", "i", "n", "k", "(", "\"", "m", "a", "i", "l", "t", "o", ":">> \o d \o <<"\"", ")", "[">>
                   ELSE IF d # <<>> /\ d[1] = "#"
                     THEN <<"#", "l", "i", "n", "k", "(", "<">> \o label \o <<".", "h", "t", "m", "l">> \o Dashed(d) \o <<">", ")", "[">>
                   ELSE <<"#", "l", "i", "n", "k", "(", "<">> \o Dashed(d) \o <<">", ")", "[">>)
             /\ d = <<"h", "t", "t", "p", "s", ":", "/", "/", "a", ".", "c", "o", "m">> => Emitted[1] = <<"#", "l", "i", "n", "k", "(", "\"", "h", "t", "t", "p", "s", ":", "/", "/", "a", ".", "c", "o", "m", "\"", ")", "[">>
             /\ d = <<"a", "@", "b", ".", "c", "o">> => Emitted[1] = <<"#", "l", "i", "n", "k", "(", "\"", "m", "a", "i", "l", "t", "o", ":", "a", "@", "b", ".", "c", "o", "\"", ")", "[">>
             /\ d = <<"#", "s", "e", "c">> => Emitted[1] = <<"#", "l", "i", "n", "k", "(", "<">> \o label \o <<".", "h", "t", "m", "l", "-", "s", "e", "c", ">", ")", "[">>
             /\ d = <<"c", "h", "2", ".", "h", "t", "m", "l", "#", "s", "e", "c">> => Emitted[1] = <<"#", "l", "i", "n", "k", "(", "<", "c", "h", "2", ".", "h", "t", "m", "l", "-", "s", "e", "c", ">", ")", "[">>]_vars

\* C8 witness: an in-chapter fragment link follows an email link
C8_Witness ==
  /\ pc = "events"
  /\ events # <<>> /\ content_str # <<>>
  /\ IsStartOf(Top(events), "Link") /\ Top(events).arg = <<"#", "s", "e", "c">>
  /\ Top(content_str) = <<"#", "l", "i", "n", "k", "(", "<", "c", ".", "h", "t", "m", "l", "-", "s", "e", "c", ">", ")", "[">>
  /\ \E i \in 1..Len(events) : IsStartOf(events[i], "Link") /\ events[i].arg = <<"a", "@", "b", ".", "c", "o">>

\* the label inside an anchor line "] <label>\n"
LabelOfAnchorLine(line) == SubSeq(line, 4, Len(line) - 2)

\* C9: a link to "#s", or to "{label}.html#s", where s is the normalised text
\* of a heading of the chapter, renders the very label written at that
\* heading's End; a link to "{label}.html" renders the label of the chapter's
\* invisible heading.
C9_LinksResolveToAnchors ==
  [][(Handled /\ IsStartOf(LastEvent, "Link"))
       => LET d == LastEvent.arg
          IN /\ \A i \in AnchorWrites :
                  LET a == LabelOfAnchorLine(content_str[i])
                      s == SubSeq(a, Len(label) + 7, Len(a))
                  IN (d = <<"#">> \o s \/ d = label \o <<".", "h", "t", "m", "l", "#">> \o s)
                       => Emitted = <<<<"#", "l", "i", "n", "k", "(", "<">> \o a \o <<">", ")", "[">>>>
             /\ (MarkerWrites # {} /\ d = label \o <<".", "h", "t", "m", "l">>)
                  => Emitted = <<<<"#", "l", "i", "n", "k", "(", "<">> \o label \o <<".", "h", "t", "m", "l", ">", ")", "[">>>>]_vars

\* the asset paths the event just handled materialises
MaterialisedPaths ==
  IF IsStartOf(LastEvent, "Image") THEN {LastEvent.arg}
  ELSE IF LastEvent.kind \in {"Html", "InlineHtml"}
    THEN IF BodyFirst(LastEvent.arg).name = "img" /\ BodyFirst(LastEvent.arg).src # NoPath
           THEN {BodyFirst(LastEvent.arg).src} ELSE {}
  ELSE IF IsEndOf(LastEvent, "CodeBlock") /\ Top(open).n = 1
    THEN {FerrisSrcPath(l) : l \in Range(FerrisTokens(Top(open).arg))}
  ELSE {}

\* C11: a destination file that exists is never copied over, in this chapter,
\* in a later chapter or when the tree was left by an earlier run: its content
\* stays what it is; and an event all of whose assets exist already at the
\* destination raises no error.
C11_FirstWriterWins ==
  [][/\ \A p \in AssetPaths : dest_files[p] # "absent" => dest_files'[p] = dest_files[p]
     /\ (Handled /\ MaterialisedPaths # {}
           /\ \A p \in MaterialisedPaths : dest_files[p] # "absent")
          => (pc' = "events" /\ error' = <<>> /\ dest_files' = dest_files)]_vars

\* C11 witness: over a tree left by an earlier run, the second chapter has gone
\* past an image that the first chapter copied
C11_Witness ==
  /\ pc = "events" /\ item = 2
  /\ typst_str # <<>> /\ Find(typst_str[1], Figure(<<"i", "m", "g", "/", "b", ".", "p", "n", "g">>)) >= 0
  /\ events # <<>> /\ IsStartOf(Top(events), "Image") /\ Top(events).arg = <<"i", "m", "g", "/", "b", ".", "p", "n", "g">>
  /\ dest_files[<<"i", "m", "g", "/", "b", ".", "p", "n", "g">>] = "copied" /\ dest_files[<<"a", ".", "p", "n", "g">>] = "stale"

\* the asset paths that a piece of output refers to in an image(..) call
FigurePaths(out) == {p \in AssetPaths : Find(out, <<"i", "m", "a", "g", "e", "(", "\"">> \o p \o <<"\"">>) >= 0}

\* C12: every path referenced by a figure in the output written so far, of this
\* chapter and of the earlier ones, exists in the destination tree; and an
\* Image event or <img> element whose file is already there writes the same
\* figure as one whose file is copied, without a copy.
C12_FigureAfterMaterialisation ==
  [][/\ \A i \in 1..Len(content_str') : \A p \in FigurePaths(content_str'[i]) :
          dest_files'[p] # "absent"
     /\ (typst_str' # typst_str \/ dest_files' # dest_files)
          => \A i \in 1..Len(typst_str') : \A p \in FigurePaths(typst_str'[i]) :
               dest_files'[p] # "absent"
     /\ (Handled /\ pc' = "events" /\ IsStartOf(LastEvent, "Image"))
          => /\ Emitted = <<Figure(LastEvent.arg)>>
             /\ dest_files[LastEvent.arg] # "absent" => dest_files' = dest_files
     /\ (Handled /\ pc' = "events" /\ LastEvent.kind = "InlineHtml" /\ MaterialisedPaths # {})
          => \A p \in MaterialisedPaths :
               /\ Emitted = <<Figure(p) \o <<"\n">>>>
               /\ dest_files[p] # "absent" => dest_files' = dest_files]_vars

\* C12 witness: the figure of an image that was already in the destination tree
\* has been written, and the file is as it was
C12_Witness ==
  /\ pc = "events"
  /\ events # <<>> /\ content_str # <<>>
  /\ IsStartOf(Top(events), "Image") /\ Top(events).arg = <<"a", ".", "p", "n", "g">>
  /\ Top(content_str) = Figure(<<"a", ".", "p", "n", "g">>)
  /\ dest_files[<<"a", ".", "p", "n", "g">>] = "stale"
  /\ \E i \in 1..Len(typst_str) : Find(typst_str[i], <<"i", "m", "g", "/", "f", "e", "r", "r", "i", "s", "/", "p", "a", "n", "i", "c", "s", ".", "s", "v", "g">>) >= 0

\* C13: a chapter that fails (no source path; an asset that cannot be copied)
\* ends the conversion: the step returns an error, nothing happens after it,
\* and a markup file is written or an export started only when every item of
\* the book has been translated.
C13_AllOrNothing ==
  [][/\ (pc = "book_item" /\ IsChapter(ch) /\ ch.source_path = NoPath) => pc' = "failed"
     /\ (Handled /\ IsStartOf(LastEvent, "Image") /\ dest_files'[LastEvent.arg] = "absent")
          => pc' = "failed"
     /\ pc' = "failed" => (error' # <<>> /\ typ_file' = NoFile /\ ~export_started')
     /\ pc # "failed"
     /\ (typ_file' # NoFile \/ export_started')
          => (Len(typst_str') = Len(book) /\ typ_file' = output_template')]_vars

\* C13 witness: the second chapter of a book to be exported has failed on an
\* image, after the first chapter was translated
C13_Witness ==
  /\ pc = "failed" /\ pdf
  /\ item = 2 /\ Len(typst_str) = 1
  /\ error = <<"i", "o", " ", "e", "r", "r", "o", "r">>
  /\ events # <<>> /\ IsStartOf(Top(events), "Image")
  /\ typ_file = NoFile /\ ~export_started

\* the template with the title substituted
TitledTemplate == ReplaceStr(template, TitleMarker, title)

\* C14: every item's output goes to the book buffer once, in order; and when
\* the template holds the placeholder the result is the template, title
\* substituted, with the book buffer inserted right after the first placeholder:
\* the text before and after it is the template's, and the buffer is inserted as
\* it is, a title marker inside it included.
C14_SpliceAfterPlaceholder ==
  [][/\ typst_str' # typst_str
          => /\ pc = "done"
             /\ Len(typst_str) = item - 1
             /\ typst_str' = Append(typst_str, book_item_str \o <<"\n">>)
     /\ (pc' = "returned" /\ Find(TitledTemplate, placeholder) >= 0)
          => LET k == Find(TitledTemplate, placeholder) + Len(placeholder)
             IN /\ Len(typst_str) = Len(book)
                /\ SubSeq(output_template', 1, k) = SubSeq(TitledTemplate, 1, k)
                /\ SubSeq(output_template', k + 1, k + Len(Flatten(typst_str)))
                     = Flatten(typst_str)
                /\ SubSeq(output_template', k + Len(Flatten(typst_str)) + 1,
                          Len(output_template'))
                     = SubSeq(TitledTemplate, k + 1, Len(TitledTemplate))]_vars

\* C14 witness: a document has been returned for a template with a title marker
\* and a placeholder, and the second chapter's output holds the title marker
C14_Witness ==
  /\ pc = "returned"
  /\ Find(template, TitleMarker) >= 0 /\ Find(template, placeholder) >= 0
  /\ Find(output_template, <<"=", " ", "T", "\n">> \o placeholder \o <<"#", "h", "e", "a", "d", "i", "n", "g">>) = 0
  /\ Len(typst_str) = 2 /\ Find(typst_str[2], TitleMarker) >= 0
  /\ Find(output_template, TitleMarker) >= 0

\* C15: when the template does not hold the placeholder, convert_typst neither
\* returns a document nor panics.
C15_MissingPlaceholderFails ==
  (title # NoTitle /\ Find(TitledTemplate, placeholder) < 0)
    => pc \notin {"returned", "exit", "panicked"}

\* C17: a chapter without a source path fails before any of its events is
\* translated, with an error that names the chapter.
C17_MissingPathNamesChapter ==
  (pc = "failed" /\ IsChapter(ch) /\ ch.source_path = NoPath)
    => (events = <<>> /\ content_str = <<>> /\ Find(error, ch.name) >= 0)

\* C19: two chapters of a book with different source paths get different labels.
C19_LabelsDistinct ==
  [][(pc = "book_item" /\ pc' = "events" /\ item > 1 /\ IsChapter(book[item - 1])
        /\ book[item - 1].source_path # ch.source_path)
       => label' # label]_vars

UnescapedBrackets(out) ==
  {i \in 1..Len(out) : out[i] \in {"[", "]"} /\ (i = 1 \/ out[i - 1] # "\\")}

\* the structural bracket depth of out: unescaped '[' less unescaped ']'
BracketDepth(out) ==
  Cardinality({i \in UnescapedBrackets(out) : out[i] = "["})
    - Cardinality({i \in UnescapedBrackets(out) : out[i] = "]"})

\* C18: a Text payload in prose puts no unescaped '[' or ']' into the output,
\* and the bracket depth of a chapter's output is zero at its end.
C18_TextBracketsEscaped ==
  [][/\ (Handled /\ LastEvent.kind = "Text"
           /\ InnermostConstruct \notin {"CodeBlock", "Image"})
          => \A i \in 1..Len(Emitted) : UnescapedBrackets(Emitted[i]) = {}
     /\ pc' = "done" => BracketDepth(book_item_str') = 0]_vars

\* the number of occurrences of pat in s
Occurrences(s, pat) ==
  Cardinality({i \in 1..(Len(s) - Len(pat) + 1) : SubSeq(s, i, i + Len(pat) - 1) = pat})

\* C20: the output of a converted chapter holds the invisible-heading line once
\* if the chapter has a heading and not at all otherwise; without a heading the
\* label <{label}.html> is nowhere in the output.
C20_NoHeadingNoMarker ==
  pc = "done" =>
    /\ Occurrences(book_item_str, InvisibleHeadingLine(invisible_heading))
         = (IF HeadingEnds # {} THEN 1 ELSE 0)
    /\ HeadingEnds = {} => Find(book_item_str, <<"<">> \o label \o <<".", "h", "t", "m", "l", ">">>) < 0

\* C20 witness: a chapter of one paragraph has been converted, with no marker
C20_Witness ==
  /\ pc = "done"
  /\ HeadingEnds = {}
  /\ \E i \in 1..Len(events) : events[i].kind = "Text"
  /\ book_item_str = <<"A", "b", "\n", "\n", "#", "p", "a", "g", "e", "b", "r", "e", "a", "k", "(", "w", "e", "a", "k", ":", " ", "t", "r", "u", "e", ")", "\n">>
  /\ ~writen_invisible_heading

\* does s end with p?
EndsWith(s, p) == Len(s) >= Len(p) /\ SubSeq(s, Len(s) - Len(p) + 1, Len(s)) = p

\* the comma-separated tokens of an info string, and whether one after the
\* first is the name of a decoration
InfoTokens(lang) == Split(lang, ",")
Decorated(lang) ==
  \E i \in 2..Len(InfoTokens(lang)) : InfoTokens(lang)[i] \in FerrisNames

\* the write of the Start of the code block that is open (only Text follows it)
OpenFenceChunk ==
  LET idx == CHOOSE i \in 1..Len(events) :
               /\ IsStartOf(events[i], "CodeBlock")
               /\ \A j \in (i + 1)..Len(events) : ~IsStartOf(events[j], "CodeBlock")
  IN content_str[Len(content_str) - (Len(events) - idx)]

\* C21: a fenced code block opens the wrapper '#columns(1)[' exactly when a
\* token of its info string after the first is does_not_compile,
\* not_desired_behavior or panics, and writes the first token after the fence;
\* its End then closes the wrapper after a figure of the decoration, whose file
\* is in the destination tree, and otherwise writes the bare fence and leaves
\* the tree alone; so the End closes the wrapper exactly when the Start opened it.
C21_DecorationBalanced ==
  [][/\ (Handled /\ IsStartOf(LastEvent, "CodeBlock") /\ LastEvent.n = 1)
          => LET lang == LastEvent.arg
             IN /\ Len(Emitted) = 1
                /\ StartsWith(Emitted[1], <<"#", "c", "o", "l", "u", "m", "n", "s", "(", "1", ")", "[", "\n">>) <=> Decorated(lang)
                /\ EndsWith(Emitted[1], <<"backtick", "backtick", "backtick", "backtick">> \o InfoTokens(lang)[1] \o <<"\n">>)
                /\ Len(Emitted[1]) = Len(InfoTokens(lang)[1]) + 5
                                       + (IF Decorated(lang) THEN Len(<<"#", "c", "o", "l", "u", "m", "n", "s", "(", "1", ")", "[", "\n">>) ELSE 0)
                /\ UNCHANGED fsVars
     /\ (Handled /\ IsEndOf(LastEvent, "CodeBlock") /\ Top(open).n = 1 /\ pc' = "events")
          => LET lang == Top(open).arg
             IN /\ Len(Emitted) = 1
                /\ StartsWith(Emitted[1], <<"backtick", "backtick", "backtick", "backtick">>)
                /\ StartsWith(OpenFenceChunk, <<"#", "c", "o", "l", "u", "m", "n", "s", "(", "1", ")", "[", "\n">>) <=> EndsWith(Emitted[1], <<"\n", "]", "\n">>)
                /\ IF Decorated(lang)
                     THEN /\ EndsWith(Emitted[1], <<"\n", "]", "\n">>)
                          /\ \E l \in Range(InfoTokens(lang)) \cap FerrisNames :
                               /\ FigurePaths(Emitted[1]) = {FerrisSrcPath(l)}
                               /\ dest_files'[FerrisSrcPath(l)] # "absent"
                     ELSE /\ Emitted[1] = <<"backtick", "backtick", "backtick", "backtick", "\n">>
                          /\ UNCHANGED fsVars]_vars

\* C21 witness: a decorated block with text in it has been closed, its
\* decoration copied
C21_Witness ==
  /\ pc = "events"
  /\ Len(events) = 3 /\ IsStartOf(events[1], "CodeBlock")
  /\ events[1].arg = <<"r", "u", "s", "t", ",", "i", "g", "n", "o", "r", "e", ",", "d", "o", "e", "s", "_", "n", "o", "t", "_", "c", "o", "m", "p", "i", "l", "e">>
  /\ events[2].kind = "Text" /\ IsEndOf(events[3], "CodeBlock")
  /\ content_str[1] = <<"#", "c", "o", "l", "u", "m", "n", "s", "(", "1", ")", "[", "\n", "backtick", "backtick", "backtick", "backtick", "r", "u", "s", "t", "\n">>
  /\ EndsWith(content_str[3], <<"i", "m", "a", "g", "e", "(", "\"", "i", "m", "g", "/", "f", "e", "r", "r", "i", "s", "/", "d", "o", "e", "s", "_", "n", "o", "t", "_", "c", "o", "m", "p", "i", "l", "e", ".", "s", "v", "g", "\"", ",", " ", "w", "i", "d", "t", "h", ":", " ", "1", "0", "%", ")", "\n", " ", " ", ")", "\n", ")", "\n", "]", "\n">>)
  /\ dest_files[<<"i", "m", "g", "/", "f", "e", "r", "r", "i", "s", "/", "d", "o", "e", "s", "_", "n", "o", "t", "_", "c", "o", "m", "p", "i", "l", "e", ".", "s", "v", "g">>] = "copied"

\* convert_content as a function of the event stream, the label and the
\* invisible heading alone: the locals at the start of the loop, one arm, and
\* the loop (for headings, paragraphs, images and text)
FreshLocals == [stack |-> <<>>, heading |-> <<>>, flag |-> FALSE, out |-> <<>>]

ArmOf(st, e, l, ih) ==
  CASE IsStartOf(e, "Heading") ->
         [st EXCEPT !.stack = Append(@, "Heading"), !.heading = <<>>,
                    !.out = @ \o HeadingOpen(e.n)]
    [] IsEndOf(e, "Heading") ->
         [st EXCEPT !.stack = Pop(@), !.flag = TRUE,
                    !.out = @ \o HeadingClose(l, st.heading)
                              \o (IF st.flag THEN <<>> ELSE InvisibleHeadingLine(ih))]
    [] IsEndOf(e, "Paragraph") -> [st EXCEPT !.out = @ \o <<"\n", "\n">>]
    [] IsStartOf(e, "Image") ->
         [st EXCEPT !.stack = Append(@, "Image"), !.out = @ \o Figure(e.arg)]
    [] IsEndOf(e, "Image") -> [st EXCEPT !.stack = Pop(@), !.out = @ \o <<"\n">>]
    [] e.kind = "Text" ->
         [st EXCEPT !.heading = IF \E i \in 1..Len(st.stack) : st.stack[i] = "Heading"
                                  THEN @ \o e.arg ELSE @,
                    !.out = @ \o TextOut(IF st.stack = <<>> THEN "None" ELSE Top(st.stack),
                                         e.arg)]
    [] OTHER -> st

RECURSIVE Translation(_, _, _, _)
Translation(evs, st, l, ih) ==
  IF evs = <<>> THEN st.out ELSE Translation(Tail(evs), ArmOf(st, Head(evs), l, ih), l, ih)

\* the output of a chapter, from the chapter, its events and the configuration
ChapterOutput(c, evs, with_number) ==
  LET l == LabelOf(FileName(c.source_path))
  IN Translation(evs, FreshLocals, l, InvisibleHeading(c.number, c.name, l, with_number))
       \o <<"#", "p", "a", "g", "e", "b", "r", "e", "a", "k", "(", "w", "e", "a", "k", ":", " ", "t", "r", "u", "e", ")", "\n">>

\* C22: every chapter starts with an empty event stack, heading buffer and
\* output buffer and with the marker flag off, and the output of a converted
\* chapter is the one computed from the chapter, its events and the
\* configuration alone, whatever was translated before it and whatever the
\* destination tree holds.
C22_ChapterLocal ==
  /\ pc = "book_item"
       => (event_stack = <<>> /\ heading = <<>> /\ content_str = <<>>
             /\ ~writen_invisible_heading)
  /\ pc = "done" => book_item_str = ChapterOutput(ch, events, section_number)

\* C22 witness: the second chapter has been converted, with a heading and an
\* image that was already there, after a first chapter with a heading
C22_Witness ==
  /\ pc = "done" /\ item = 2
  /\ Len(typst_str) = 1 /\ Find(typst_str[1], <<"#", "i", "n", "v", "i", "s", "i", "b", "l", "e", "-", "h", "e", "a", "d", "i", "n", "g">>) >= 0
  /\ Find(book_item_str, <<"#", "i", "n", "v", "i", "s", "i", "b", "l", "e", "-", "h", "e", "a", "d", "i", "n", "g">>) >= 0
  /\ \E i \in 1..Len(events) : IsStartOf(events[i], "Image")
  /\ dest_files[<<"a", ".", "p", "n", "g">>] = "stale" /\ dest_files[<<"n", "o", ".", "p", "n", "g">>] = "stale"

\* C23: the payload of a Text or InlineCode event between an Image Start and
\* its End, also inside emphasis, is written between the comment delimiters,
\* as it is, and in no other way.
C23_AltContentCommented ==
  [][(Handled /\ LastEvent.kind \in {"Text", "Code"} /\ InsideTag("Image"))
       => Emitted = <<<<"/", "*", " ">> \o LastEvent.arg \o <<" ", "*", "/">>>>]_vars

\* C24: a destination written as a mailto: link holds an '@' with a '.'
\* somewhere after it; "a@bcde" is written as a label.
C24_MailtoNeedsDot ==
  [][(Handled /\ IsStartOf(LastEvent, "Link"))
       => LET d == LastEvent.arg
          IN /\ StartsWith(Emitted[1], <<"#", "l", "i", "n", "k", "(", "\"", "m", "a", "i", "l", "t", "o", ":">>)
                  => \E k \in 1..Len(d) :
                       d[k] = "@" /\ \E j \in (k + 1)..Len(d) : d[j] = "."
             /\ d = <<"a", "@", "b", "c", "d", "e">> => Emitted[1] = <<"#", "l", "i", "n", "k", "(", "<", "a", "@", "b", "c", "d", "e", ">", ")", "[">>]_vars

\* C25: the invisible heading of a chapter carries the chapter's number when it
\* has one, at the level that is the length of the number (1 without a
\* number), and the label <{label}.html>, whatever the configuration.
C25_MarkerCarriesNumber ==
  (pc \in {"events", "done"} /\ IsChapter(ch)) =>
    /\ EndsWith(invisible_heading, <<"<">> \o label \o <<".", "h", "t", "m", "l", ">">>)
    /\ StartsWith(invisible_heading,
                  <<"#", "i", "n", "v", "i", "s", "i", "b", "l", "e", "-", "h", "e", "a", "d", "i", "n", "g", "(", "l", "e", "v", "e", "l", ":", " ">>
                    \o IntStr(IF ch.number = NoNumber THEN 1 ELSE Len(ch.number)) \o <<",">>)
    /\ ch.number # NoNumber => Find(invisible_heading, SectionNumberStr(ch.number)) >= 0

\* C25, amended: the invisible heading has the label <{label}.html> and the
\* level that is the length of the chapter's number (1 without a number) in
\* every configuration, and carries the number, in front of the name, exactly
\* when the chapter has one and cfg.section_number is set; otherwise its body is
\* the name alone.
C25_MarkerNumberByConfig ==
  (pc \in {"events", "done"} /\ IsChapter(ch)) =>
    /\ EndsWith(invisible_heading, <<"]", " ", "<">> \o label \o <<".", "h", "t", "m", "l", ">">>)
    /\ StartsWith(invisible_heading,
                  <<"#", "i", "n", "v", "i", "s", "i", "b", "l", "e", "-", "h", "e", "a", "d", "i", "n", "g", "(", "l", "e", "v", "e", "l", ":", " ">>
                    \o IntStr(IF ch.number = NoNumber THEN 1 ELSE Len(ch.number))
                    \o <<",", " ", "o", "u", "t", "l", "i", "n", "e", "d", ":", " ", "t", "r", "u", "e", ")", "[">>)
    /\ IF ch.number # NoNumber /\ section_number
         THEN Find(invisible_heading,
                   <<"[", "#", "\"">> \o SectionNumberStr(ch.number) \o <<" ">> \o ch.name \o <<"\"", "]", " ", "<">>) >= 0
         ELSE /\ Find(invisible_heading, <<"[">> \o ch.name \o <<"]", " ", "<">>) >= 0
              /\ Find(invisible_heading, SectionNumberStr(ch.number)) < 0

\* C25 witness: a numbered chapter is being converted with section numbers off,
\* and its invisible heading has the level of the number and not the number
C25_Witness ==
  /\ pc = "events"
  /\ ch.number = <<1, 2>> /\ ~section_number
  /\ invisible_heading = <<"#", "i", "n", "v", "i", "s", "i", "b", "l", "e", "-", "h", "e", "a", "d", "i", "n", "g", "(", "l", "e", "v", "e", "l", ":", " ", "2", ",", " ", "o", "u", "t", "l", "i", "n", "e", "d", ":", " ", "t", "r", "u", "e", ")", "[", "N", "]", " ", "<", "c", ".", "h", "t", "m", "l", ">">>

\* C26: a raw markup event (Html or InlineHtml) whose text is exactly <sup> or
\* </sup> writes the superscript opener or closer; any other raw markup whose
\* first body element is not an img with a src attribute writes nothing, leaves
\* the event stack, the heading buffer and the marker flag as they are, touches
\* no file and does not fail; only an img with src as first body element changes
\* the destination tree, and it writes exactly one figure when it succeeds.
C26_OtherMarkupDropped ==
  [][(Handled /\ LastEvent.kind \in {"Html", "InlineHtml"})
       => LET t == LastEvent.arg
          IN /\ UNCHANGED <<event_stack, heading, writen_invisible_heading>>
             /\ t = <<"<", "s", "u", "p", ">">> => Emitted = <<<<"#", "s", "u", "p", "e", "r", "[">>>> /\ UNCHANGED fsVars
             /\ t = <<"<", "/", "s", "u", "p", ">">> => Emitted = <<<<"]">>>> /\ UNCHANGED fsVars
             /\ (t \notin {<<"<", "s", "u", "p", ">">>, <<"<", "/", "s", "u", "p", ">">>} /\ MaterialisedPaths = {})
                  => /\ Emitted = <<>>
                     /\ UNCHANGED fsVars
                     /\ pc' = "events"
             /\ (dest_files' # dest_files \/ dest_dirs' # dest_dirs \/ FigurePaths(Flatten(Emitted)) # {})
                  => MaterialisedPaths # {}
             /\ (MaterialisedPaths # {} /\ pc' = "events")
                  => Emitted = <<<<"#", "f", "i", "g", "u", "r", "e", "(", "\n", " ", " ", "i", "m", "a", "g", "e", "(", "\"", "h", ".", "p", "n", "g", "\"", ")", "\n", ")", "\n">>>>]_vars

\* C26 witness: inside a heading, raw markup other than <sup>, </sup> and an img
\* with src has been handled, and nothing has been written for it
C26_Witness ==
  /\ pc = "events"
  /\ Len(events) = 2
  /\ IsStartOf(events[1], "Heading")
  /\ events[2].kind = "InlineHtml" /\ events[2].arg = <<"h", "i", "<", "i", "m", "g", " ", "s", "r", "c", "=", "\"", "h", ".", "p", "n", "g", "\"", ">">>
  /\ Len(content_str) = 1
  /\ heading = <<>>
  /\ dest_files = NoFiles

\* C27: an event without an arm (hard break, rule, footnote reference, task
\* list marker, Start and End of strikethrough, footnote definition and HTML
\* block) writes nothing, leaves the event stack, the heading buffer, the marker
\* flag and the destination tree as they are and does not fail; a Text or Code
\* event directly inside such a construct, in a paragraph or a heading, is
\* translated as prose, and joins the heading buffer inside a heading.
C27_UnhandledEventsDropped ==
  [][Handled =>
       /\ (\/ LastEvent.kind = "Other"
           \/ LastEvent.kind \in {"Start", "End"} /\ LastEvent.tag \in OtherTags)
            => /\ Emitted = <<>>
               /\ UNCHANGED <<localVars, fsVars>>
               /\ pc' = "events"
       /\ (LastEvent.kind \in {"Text", "Code"} /\ open # <<>> /\ Top(open).tag \in OtherTags)
            => LET t == LastEvent.arg
               IN /\ Emitted =
                       <<IF LastEvent.kind = "Code" THEN <<"backtick", "backtick", "backtick", "backtick", " ">> \o t \o <<" ", "backtick", "backtick", "backtick", "backtick">>
                         ELSE transformed_text(t)>>
                  /\ heading' = (IF InsideTag("Heading") THEN heading \o t ELSE heading)
                  /\ UNCHANGED <<event_stack, writen_invisible_heading, fsVars>>]_vars

\* C27 witness: a Text inside a strikethrough inside a heading has been written
\* escaped and has joined the heading buffer, and the strikethrough has closed
\* without output
C27_Witness ==
  /\ pc = "events"
  /\ Len(events) = 4
  /\ IsStartOf(events[1], "Heading")
  /\ IsStartOf(events[2], "Strikethrough")
  /\ events[3].kind = "Text"
  /\ IsEndOf(events[4], "Strikethrough")
  /\ Len(content_str) = 2
  /\ content_str[2] = <<"a", "\\", "*">>
  /\ heading = <<"a", "*">>
  /\ Len(event_stack) = 1

\* C28: no step removes or changes a file or directory of the destination
\* tree, so when convert_typst returns an error every asset copied and every
\* directory created before, in the failing chapter or in an earlier one, is
\* still there; and no markup file is written then.
C28_NoRollback ==
  [][/\ \A p \in DOMAIN dest_files :
          dest_files[p] # "absent" => dest_files'[p] = dest_files[p]
     /\ dest_dirs \subseteq dest_dirs'
     /\ pc' = "failed" => typ_file' = NoFile /\ ~export_started']_vars

\* C28 witness: the second chapter failed with PDF export on; the asset the
\* first chapter copied and its directory are in the tree, and there is no
\* markup file
C28_Witness ==
  /\ pc = "failed"
  /\ pdf
  /\ item = 2
  /\ Find(Flatten(typst_str), <<"i", "m", "a", "g", "e", "(", "\"", "i", "m", "g", "/", "b", ".", "p", "n", "g", "\"", ")">>) >= 0
  /\ dest_files[<<"i", "m", "g", "/", "b", ".", "p", "n", "g">>] = "copied"
  /\ <<"i", "m", "g">> \in dest_dirs
  /\ typ_file = NoFile

\* C29: every run whose conversion succeeded has written the markup file when
\* it exits, with or without PDF export; with PDF export the file is written no
\* later than the export starts.
C29_MarkupAlwaysWritten ==
  /\ pc = "exit" => typ_file # NoFile
  /\ export_started => typ_file # NoFile

====
